---------------------------- MODULE Spec2Model ----------------------------
(***************************************************************************)
(* Verification model of the visual-feature analytics service              *)
(* (jomapps/dinov3-utilities).                                             *)
(*                                                                         *)
(* Part 1: thresholdGroup, the grouping loop of                            *)
(*         app/routers/character_analysis.py :: group_by_character, over   *)
(*         the percentage matrix of                                        *)
(*         app/core/dinov3_service.py :: calculate_similarity_matrix.      *)
(* Part 2: segment, the shot segmenter of                                  *)
(*         app/routers/video_analysis.py :: analyze_video_shots.           *)
(* Part 3: ShotRanker, suggest_shots and calculate_shot_relevance of       *)
(*         app/routers/video_analysis.py.                                  *)
(* Part 4: calculate_similarity and its ranking in find_best_match         *)
(*         (app/routers/similarity.py) and semantic_search                 *)
(*         (app/routers/analytics.py).                                     *)
(* Part 5: AnomalyDetector, anomaly_detection and detect_anomalies.        *)
(* Part 6: FeatureClusterer, feature_clustering and cluster_features.      *)
(* Part 7: the batch size of the callers of the similarity matrix.         *)
(* Part 8: the thresholds of app/routers/configuration.py and              *)
(*         character_matching of app/routers/character_analysis.py.        *)
(* Part 9: reference_enforcement of app/routers/production_services.py.    *)
(* Part 10: upload_media of app/routers/media_management.py.               *)
(* Part 11: extract_features of app/routers/feature_extraction.py.         *)
(* Part 12: get_dinov3_service of app/routers/video_analysis.py.           *)
(*                                                                         *)
(* Each part has its own specification (SpecGroup, SpecSeg, SpecRank,      *)
(* SpecMatch, SpecAnomaly, SpecCluster, SpecBatch, SpecConfig,             *)
(* SpecEnforce, SpecUpload, SpecExtract, SpecLocator), in which the        *)
(* variables of the other parts stay idle.                                 *)
(*                                                                         *)
(* Python indices are 0-based, sequences here are 1-based: index k of the  *)
(* model is index k-1 of the source.                                       *)
(***************************************************************************)
EXTENDS Integers, Sequences, FiniteSets, TLC

(***************************************************************************)
(* Bounds of the model.                                                    *)
(***************************************************************************)
\* largest number of assets with features in one grouping request
MaxN == 3
\* longest video, in ticks (see TicksPerSecond)
MaxDuration == 18
\* brightest gray level of a frame; frames are one gray level in 0..MaxGray
MaxGray == 2

\* The value None of the source, where the other values are strings.
None == "None"

\* A number that may be None is kept as a sequence: << >> for None, << x >>
\* for the number x.
NoNumber == << >>
Num(x) == << x >>
Val(o) == o[1]

(***************************************************************************)
(* PART 1 - similarity matrix and thresholdGroup                           *)
(***************************************************************************)

\* Feature vectors of the model: dimension 2, small integer components.
\* The set holds the zero vector, two distinct vectors of the same direction,
\* orthogonal, opposite and 45-degree vectors.
FeatureVectors ==
    { <<0, 0>>, <<1, 0>>, <<2, 0>>, <<1, 1>>, <<0, 1>>, <<-1, 0>> }

\* similarity_threshold values of a request, in percent
Thresholds == { 0, 85, 100 }

RECURSIVE DotUpTo(_, _, _)
DotUpTo(a, b, k) == IF k = 0 THEN 0 ELSE DotUpTo(a, b, k - 1) + a[k] * b[k]

\* dot product of two vectors of the same length
Dot(a, b) == DotUpTo(a, b, Len(a))

\* floor of the square root of x, for 0 <= x <= 2500
FloorSqrt(x) == CHOOSE q \in 0..50 : q * q <= x /\ (q + 1) * (q + 1) > x

\* sklearn's cosine_similarity normalises each row by its L2 norm and leaves a
\* zero row zero, so the cosine of a zero vector with anything (itself
\* included) is 0.  The percentage is (cos + 1) * 50.  The model keeps
\* floor(percentage) exactly: for an integer threshold T,
\* percentage >= T  <=>  floor(percentage) >= T.
\*   dot >= 0: floor(50 + 50 cos) = 50 + floor(sqrt(2500 dot^2 / (|a|^2 |b|^2)))
\*   dot <  0: floor(50 - 50|cos|) = 50 - ceil(sqrt(2500 dot^2 / (|a|^2 |b|^2)))
SimilarityPercentage(a, b) ==
    LET na == Dot(a, a)
        nb == Dot(b, b)
        d  == Dot(a, b)
        x  == 2500 * d * d
    IN  IF na = 0 \/ nb = 0 THEN 50
        ELSE IF d >= 0 THEN 50 + FloorSqrt(x \div (na * nb))
        ELSE LET q == FloorSqrt(x \div (na * nb))
             IN  IF q * q * na * nb = x THEN 50 - q ELSE 50 - (q + 1)

\* calculate_similarity_matrix: the N x N grid of percentages
calculate_similarity_matrix(features_list) ==
    [r \in 1..Len(features_list) |->
        [c \in 1..Len(features_list) |->
            SimilarityPercentage(features_list[r], features_list[c])]]

\* line 195 with the percentage compared to the threshold taken as a fraction
JoinsFraction(sim, threshold) == sim >= threshold \div 100

\* line 195: similarity_matrix[i][j] >= request.similarity_threshold
Joins(sim, threshold) == sim >= threshold

\* line 195 reading the row of the member that joined last
ReferenceLastMember(opener, group) == group[Len(group)]

\* line 195: the row of the matrix that j is compared with is the opener's, i
Reference(opener, group) == opener

\* lines 183 and 192 without the membership test
UnassignedAlways(k, asg) == TRUE

\* lines 183 and 192: `if i in assigned: continue`, `if j in assigned: continue`
Unassigned(k, asg) == k \notin asg

VARIABLES
    g_pc,                   \* position in group_by_character
    assets_with_features,   \* the feature vectors of the request's assets
    similarity_threshold,   \* request.similarity_threshold
    similarity_matrix,      \* result of calculate_similarity_matrix
    groups,                 \* the groups closed so far (sequences of indices)
    assigned,               \* the set `assigned`
    current_group,          \* the group being filled
    g_i,                    \* outer loop index i
    g_j,                    \* inner loop index j
    g_scanned               \* history: the pairs <<i, j>> the inner scan tested

gvars == << g_pc, assets_with_features, similarity_threshold, similarity_matrix,
            groups, assigned, current_group, g_i, g_j, g_scanned >>

VARIABLES
    s_pc,                      \* position in analyze_video_shots
    video_asset,               \* what the asset id of the request refers to
    fps,                       \* video.fps: Num(rate), or NoNumber
    duration,                  \* video.duration: Num(ticks), or NoNumber
    shot_detection_threshold,  \* request.shot_detection_threshold, in gray levels
    extract_keyframes,         \* request.extract_keyframes
    temp_file,                 \* TRUE while /tmp/<asset id>.mp4 exists
    video_open,                \* TRUE while the VideoFileClip is open
    s_t,                       \* loop variable t of the frame scan, in ticks
    prev_frame,                \* prev_frame: Num(gray level), or NoNumber
    shot_boundaries,           \* shot_boundaries
    s_i,                       \* loop index i of the shot loop
    shot_analyses,             \* shot_analyses
    frames,                    \* history: the gray levels of the sampled frames
    sample_times,              \* history: the timestamps of the sampled frames
    embed_failed               \* history: shot_index of the shots whose
                               \* extract_features call raised

svars == << s_pc, video_asset, fps, duration, shot_detection_threshold,
            extract_keyframes, temp_file, video_open, s_t, prev_frame,
            shot_boundaries, s_i, shot_analyses, frames, sample_times,
            embed_failed >>

VARIABLES
    r_pc,                  \* position in suggest_shots
    shot_store,            \* the VideoShot collection, in the order find() returns it
    suggest_request,       \* the SuggestShotsRequest
    shots,                 \* `shots`: indices into shot_store
    shot_recommendations,  \* shot_recommendations
    r_response             \* the response of suggest_shots

rvars == << r_pc, shot_store, suggest_request, shots, shot_recommendations,
            r_response >>

VARIABLES
    m_pc,                \* position in find_best_match or semantic_search
    m_endpoint,          \* which of the two endpoints was called
    reference_asset,     \* the reference (query) asset: Just(features), or
                         \* Nothing when it is missing or has no features
    candidate_assets,    \* the candidate (dataset) assets, in request order:
                         \* Just(features), or Nothing
    top_k,               \* request.top_k of semantic_search
    m_k,                 \* the number of candidates the loop has taken
    candidate_results,   \* candidate_results (search_results)
    m_response           \* the response

mvars == << m_pc, m_endpoint, reference_asset, candidate_assets, top_k, m_k,
            candidate_results, m_response >>

\* neither find_best_match nor semantic_search has been called
MatchIdle ==
    /\ m_pc = "idle"
    /\ m_endpoint = "none"
    /\ reference_asset = << >>
    /\ candidate_assets = << >>
    /\ top_k = 0
    /\ m_k = 0
    /\ candidate_results = << >>
    /\ m_response = << >>

VARIABLES
    a_pc,                \* position in anomaly_detection
    reference_assets,    \* the assets of request.reference_asset_ids, in
                         \* order: Just(features), or Nothing
    test_assets,         \* the assets of request.test_asset_ids, likewise
    reference_features,  \* reference_features
    test_features,       \* test_features
    test_info,           \* test_info: the asset of each entry of test_features
    anomaly_results,     \* anomaly_results of detect_anomalies
    a_response           \* the response of anomaly_detection

avars == << a_pc, reference_assets, test_assets, reference_features,
            test_features, test_info, anomaly_results, a_response >>

\* anomaly_detection has not been called
AnomalyIdle ==
    /\ a_pc = "idle"
    /\ reference_assets = << >>
    /\ test_assets = << >>
    /\ reference_features = << >>
    /\ test_features = << >>
    /\ test_info = << >>
    /\ anomaly_results = << >>
    /\ a_response = << >>

VARIABLES
    c_pc,               \* position in feature_clustering
    cluster_assets,     \* the assets of request.asset_ids, in order:
                        \* Just(features), or Nothing
    requested_clusters, \* request.n_clusters: Num(k), or NoNumber
    c_features_list,    \* features_list
    c_asset_mapping,    \* asset_mapping: the asset of each entry of features_list
    n_clusters,         \* n_clusters of cluster_features
    cluster_labels,     \* cluster_labels, one label in 0..n_clusters-1 per entry
    c_i,                \* loop variable i of the statistics loop
    cluster_stats,      \* cluster_stats
    c_response          \* the response of feature_clustering

cvars == << c_pc, cluster_assets, requested_clusters, c_features_list,
            c_asset_mapping, n_clusters, cluster_labels, c_i, cluster_stats,
            c_response >>

\* feature_clustering has not been called
ClusterIdle ==
    /\ c_pc = "idle"
    /\ cluster_assets = << >>
    /\ requested_clusters = NoNumber
    /\ c_features_list = << >>
    /\ c_asset_mapping = << >>
    /\ n_clusters = 0
    /\ cluster_labels = << >>
    /\ c_i = 0
    /\ cluster_stats = << >>
    /\ c_response = << >>

VARIABLES
    b_pc,             \* position in batch_similarity or group_by_character
    b_endpoint,       \* which of the two endpoints was called
    asset_count,      \* len(request.asset_ids)
    featured_count,   \* how many of the request's assets exist and have features
    loaded_features,  \* len(assets_with_features)
    matrix_rows,      \* the number of rows of the similarity matrix computed,
                      \* 0 while none has been
    b_response        \* the response

bvars == << b_pc, b_endpoint, asset_count, featured_count, loaded_features,
            matrix_rows, b_response >>

\* neither endpoint has been called for its batch size
BatchIdle ==
    /\ b_pc = "idle"
    /\ b_endpoint = "none"
    /\ asset_count = 0
    /\ featured_count = 0
    /\ loaded_features = 0
    /\ matrix_rows = 0
    /\ b_response = << >>

VARIABLES
    config_store,          \* _config_store: the two thresholds of the process
    k_endpoint,            \* the endpoint of the last request served
    k_threshold,           \* request.threshold of the last update request
    k_reference,           \* character_matching: the reference asset,
                           \* Just(features), or Nothing when it is missing
                           \* or has no features
    k_tests,               \* character_matching: the test assets in request
                           \* order, Just(features) or Nothing
    character_consistency, \* the CharacterConsistency rows the last
                           \* character_matching added and committed
    k_response             \* the response of the last request

kvars == << config_store, k_endpoint, k_threshold, k_reference, k_tests,
            character_consistency, k_response >>

\* the process has been started and no configuration or character_matching
\* request has been served
ConfigIdle ==
    /\ config_store = [quality_threshold |-> 70, similarity_threshold |-> 75]
    /\ k_endpoint = "none"
    /\ k_threshold = << >>
    /\ k_reference = << >>
    /\ k_tests = << >>
    /\ character_consistency = << >>
    /\ k_response = << >>

VARIABLES
    e_pc,                  \* position in reference_enforcement
    master_asset,          \* the master reference asset: Just(features), or
                           \* Nothing when it is missing or has no features
    generated_assets,      \* the generated assets in request order:
                           \* Just(features) or Nothing
    compliance_threshold,  \* request.compliance_threshold, in percent
    compliance_results,    \* compliance_results
    e_response             \* the response

evars == << e_pc, master_asset, generated_assets, compliance_threshold,
            compliance_results, e_response >>

\* reference_enforcement has not been called
EnforceIdle ==
    /\ e_pc = "idle"
    /\ master_asset = << >>
    /\ generated_assets = << >>
    /\ compliance_threshold = 0
    /\ compliance_results = << >>
    /\ e_response = << >>

VARIABLES
    u_pc,             \* position in upload_media
    u_file,           \* the uploaded file: content_type, filename, size of
                      \* the data, and what PIL reads from the data
    stored_objects,   \* the objects the request has put into the bucket
    media_assets,     \* the MediaAsset documents the request has inserted
    u_response        \* the response

uvars == << u_pc, u_file, stored_objects, media_assets, u_response >>

\* upload_media has not been called
UploadIdle ==
    /\ u_pc = "idle"
    /\ u_file = << >>
    /\ stored_objects = << >>
    /\ media_assets = << >>
    /\ u_response = << >>

VARIABLES
    db_asset,           \* the MediaAsset document of the asset id in the
                        \* database: Just(document), or Nothing when there
                        \* is none
    x_pc,               \* position of each extract_features call
    x_asset,            \* each call's local variable asset
    x_provider_called,  \* whether each call has run the embedding provider
    x_response          \* each call's response, status 0 while it has none

xvars == << db_asset, x_pc, x_asset, x_provider_called, x_response >>

\* extract_features has not been called
ExtractIdle ==
    /\ db_asset = << >>
    /\ x_pc = << >>
    /\ x_asset = << >>
    /\ x_provider_called = << >>
    /\ x_response = << >>

VARIABLES
    service_instance,  \* _dinov3_service_instance of the router module
    main_service,      \* dinov3_service of app.main as the router sees it
    constructed,       \* how many DINOv3Service objects get_dinov3_service
                       \* has constructed
    l_pc,              \* position of each caller of get_dinov3_service
    l_service,         \* each caller's local variable service
    l_result           \* the instance returned to each caller

lvars == << service_instance, main_service, constructed, l_pc, l_service,
            l_result >>

\* get_dinov3_service has not been called
LocatorIdle ==
    /\ service_instance = << >>
    /\ main_service = << >>
    /\ constructed = 0
    /\ l_pc = << >>
    /\ l_service = << >>
    /\ l_result = << >>

\* the variables of the components after Part 2
ovars == << rvars, mvars, avars, cvars, bvars, kvars, evars, uvars, xvars, lvars >>

vars == << gvars, svars, ovars >>

\* suggest_shots has not been called
RankIdle ==
    /\ r_pc = "idle"
    /\ shot_store = << >>
    /\ suggest_request = << >>
    /\ shots = << >>
    /\ shot_recommendations = << >>
    /\ r_response = << >>

\* none of the components after Part 2 has been called
OthersIdle ==
    /\ RankIdle
    /\ MatchIdle
    /\ AnomalyIdle
    /\ ClusterIdle
    /\ BatchIdle
    /\ ConfigIdle
    /\ EnforceIdle
    /\ UploadIdle
    /\ ExtractIdle
    /\ LocatorIdle

\* analyze_video_shots has not been called
SegIdle ==
    /\ s_pc = "idle"
    /\ video_asset = "none"
    /\ fps = NoNumber
    /\ duration = NoNumber
    /\ shot_detection_threshold = 0
    /\ extract_keyframes = FALSE
    /\ temp_file = FALSE
    /\ video_open = FALSE
    /\ s_t = 0
    /\ prev_frame = NoNumber
    /\ shot_boundaries = << >>
    /\ s_i = 0
    /\ shot_analyses = << >>
    /\ frames = << >>
    /\ sample_times = << >>
    /\ embed_failed = {}

\* group_by_character has not been called
GroupIdle ==
    /\ g_pc = "idle"
    /\ assets_with_features = << >>
    /\ similarity_threshold = 0
    /\ similarity_matrix = << >>
    /\ groups = << >>
    /\ assigned = {}
    /\ current_group = << >>
    /\ g_i = 0
    /\ g_j = 0
    /\ g_scanned = {}

\* all sequences over S of length lo..hi
SeqsOf(S, lo, hi) == UNION { [1..n -> S] : n \in lo..hi }

GroupInit ==
    /\ g_pc = "request"
    /\ assets_with_features \in SeqsOf(FeatureVectors, 1, MaxN)
    /\ similarity_threshold \in Thresholds
    /\ similarity_matrix = << >>
    /\ groups = << >>
    /\ assigned = {}
    /\ current_group = << >>
    /\ g_i = 0
    /\ g_j = 0
    /\ g_scanned = {}
    /\ SegIdle
    /\ OthersIdle

GN == Len(assets_with_features)

\* lines 169-173: fewer than 2 assets with features -> HTTP 400
GroupReject ==
    /\ g_pc = "request"
    /\ GN < 2
    /\ g_pc' = "http400"
    /\ UNCHANGED << svars, ovars, assets_with_features, similarity_threshold, similarity_matrix,
                    groups, assigned, current_group, g_i, g_j, g_scanned >>

\* lines 176-182: compute the matrix, start the outer loop
GroupMatrix ==
    /\ g_pc = "request"
    /\ GN >= 2
    /\ similarity_matrix' = calculate_similarity_matrix(assets_with_features)
    /\ groups' = << >>
    /\ assigned' = {}
    /\ g_i' = 1
    /\ g_pc' = "outer"
    /\ UNCHANGED << svars, ovars, assets_with_features, similarity_threshold, current_group,
                    g_j, g_scanned >>

\* lines 183-184: i already assigned -> continue
OuterSkip ==
    /\ g_pc = "outer"
    /\ g_i <= GN
    /\ ~Unassigned(g_i, assigned)
    /\ g_i' = g_i + 1
    /\ UNCHANGED << svars, ovars, g_pc, assets_with_features, similarity_threshold,
                    similarity_matrix, groups, assigned, current_group, g_j,
                    g_scanned >>

\* lines 186-191: i opens a new group
OpenGroup ==
    /\ g_pc = "outer"
    /\ g_i <= GN
    /\ Unassigned(g_i, assigned)
    /\ current_group' = << g_i >>
    /\ assigned' = assigned \cup { g_i }
    /\ g_j' = g_i + 1
    /\ g_pc' = "inner"
    /\ UNCHANGED << svars, ovars, assets_with_features, similarity_threshold, similarity_matrix,
                    groups, g_i, g_scanned >>

\* lines 192-193: j already assigned -> continue
InnerSkip ==
    /\ g_pc = "inner"
    /\ g_j <= GN
    /\ ~Unassigned(g_j, assigned)
    /\ g_j' = g_j + 1
    /\ UNCHANGED << svars, ovars, g_pc, assets_with_features, similarity_threshold,
                    similarity_matrix, groups, assigned, current_group, g_i,
                    g_scanned >>

\* lines 195-197: j is unassigned; it joins when similar enough to the opener i
InnerTest ==
    /\ g_pc = "inner"
    /\ g_j <= GN
    /\ Unassigned(g_j, assigned)
    /\ g_scanned' = g_scanned \cup { << g_i, g_j >> }
    /\ IF Joins(similarity_matrix[Reference(g_i, current_group)][g_j],
                similarity_threshold)
       THEN /\ current_group' = Append(current_group, g_j)
            /\ assigned' = assigned \cup { g_j }
       ELSE UNCHANGED << svars, ovars, current_group, assigned >>
    /\ g_j' = g_j + 1
    /\ UNCHANGED << svars, ovars, g_pc, assets_with_features, similarity_threshold,
                    similarity_matrix, groups, g_i >>

\* lines 199-213: the inner loop is over; the group is appended to groups
CloseGroup ==
    /\ g_pc = "inner"
    /\ g_j > GN
    /\ groups' = Append(groups, current_group)
    /\ g_i' = g_i + 1
    /\ g_pc' = "outer"
    /\ UNCHANGED << svars, ovars, assets_with_features, similarity_threshold, similarity_matrix,
                    assigned, current_group, g_j, g_scanned >>

\* lines 215-224: the outer loop is over; the response is returned
GroupReturn ==
    /\ g_pc = "outer"
    /\ g_i > GN
    /\ g_pc' = "done"
    /\ UNCHANGED << svars, ovars, assets_with_features, similarity_threshold, similarity_matrix,
                    groups, assigned, current_group, g_i, g_j, g_scanned >>

GroupNext ==
    \/ GroupReject
    \/ GroupMatrix
    \/ OuterSkip
    \/ OpenGroup
    \/ InnerSkip
    \/ InnerTest
    \/ CloseGroup
    \/ GroupReturn

SpecGroup == GroupInit /\ [][GroupNext]_vars

(***************************************************************************)
(* Claims about thresholdGroup (checked under SpecGroup)                   *)
(***************************************************************************)

\* the positions <<g, p>> at which index k occurs in the returned groups
Occurrences(k) ==
    { gp \in (1..Len(groups)) \X (1..GN) :
        gp[2] <= Len(groups[gp[1]]) /\ groups[gp[1]][gp[2]] = k }

\* the members of group g, as a set
Members(g) == { groups[g][p] : p \in 1..Len(groups[g]) }

\* the indices in the groups closed before group g
InEarlierGroup(k, g) == \E h \in 1..(g - 1) : k \in Members(h)

\* C1: when the grouping loop has finished, every index 0..N-1 is in exactly
\* one group (none missing, none in two groups) and no group is empty.
C1_Partition ==
    g_pc = "done" =>
        /\ \A k \in 1..GN : Cardinality(Occurrences(k)) = 1
        /\ \A g \in 1..Len(groups) : Len(groups[g]) >= 1
        /\ \A g \in 1..Len(groups) : Members(g) \subseteq 1..GN

\* a finished run with two groups, one of them with several members
C1_Witness ==
    /\ g_pc = "done"
    /\ GN = MaxN
    /\ Len(groups) = 2
    /\ \E g \in 1..Len(groups) : Len(groups[g]) >= 2

\* C2: indices are scanned in increasing order; j joins the group opened by
\* i < j exactly when j is still unassigned when i's scan reaches it and
\* similarity(i, j) >= threshold, i being the opener; similarity to the other
\* members of the group plays no part.
C2_OpenerOnly ==
    g_pc = "done" =>
        \A g \in 1..Len(groups) :
            LET opener == groups[g][1] IN
            \* openers and members appear in increasing order
            /\ \A p \in 1..(Len(groups[g]) - 1) : groups[g][p] < groups[g][p + 1]
            /\ g > 1 => groups[g - 1][1] < opener
            \* the scan of opener i tests exactly the later indices that no
            \* earlier group holds
            /\ \A j \in 1..GN :
                 << opener, j >> \in g_scanned
                    <=> (j > opener /\ ~InEarlierGroup(j, g))
            \* and of those, exactly the ones similar to the opener join
            /\ \A j \in (1..GN) \ { opener } :
                 j \in Members(g)
                    <=> /\ << opener, j >> \in g_scanned
                        /\ similarity_matrix[opener][j] >= similarity_threshold

\* a finished run in which an index is similar enough to a non-opener member
\* of a group, but not to its opener, and is left out of that group: the
\* grouping is not the transitive closure of "similar"
C2_Witness ==
    /\ g_pc = "done"
    /\ \E g \in 1..Len(groups) : \E m \in Members(g) : \E j \in 1..GN :
         /\ m # groups[g][1]
         /\ j > m
         /\ similarity_matrix[m][j] >= similarity_threshold
         /\ similarity_matrix[groups[g][1]][j] < similarity_threshold
         /\ j \notin Members(g)

\* the vectors of the request are pairwise distinct
PairwiseDistinct ==
    \A a, b \in 1..GN : a # b => assets_with_features[a] # assets_with_features[b]

\* u and v are both non-zero and point in the same direction (cosine 1):
\* equality in the Cauchy-Schwarz inequality with a positive dot product
SameDirection(u, v) ==
    /\ Dot(u, v) > 0
    /\ Dot(u, v) * Dot(u, v) = Dot(u, u) * Dot(v, v)

NoTwoSameDirection ==
    \A a, b \in 1..GN :
        a # b => ~SameDirection(assets_with_features[a], assets_with_features[b])

\* C3 as stated: threshold = 100 on N pairwise-distinct vectors yields
\* exactly N groups.
C3_Original ==
    (g_pc = "done" /\ similarity_threshold = 100 /\ PairwiseDistinct)
        => Len(groups) = GN

\* C3 amended: threshold = 100 on N vectors no two of which point in the same
\* direction (cosine similarity 1) yields exactly N groups.
C3_Amended ==
    (g_pc = "done" /\ similarity_threshold = 100 /\ NoTwoSameDirection)
        => Len(groups) = GN

\* a finished run at threshold 100 over three distinct directions
C3_Witness ==
    /\ g_pc = "done"
    /\ similarity_threshold = 100
    /\ NoTwoSameDirection
    /\ GN = MaxN
    /\ Len(groups) = GN
    /\ \E a, b \in 1..GN : a # b /\ similarity_matrix[a][b] >= 85

(***************************************************************************)
(* PART 2 - segment: analyze_video_shots                                   *)
(*                                                                         *)
(* Time is counted in ticks of 1/12 second, exactly (no rounding): the     *)
(* frame rates of the model divide 12, so that every sample timestamp      *)
(* 1/fps * sample_interval is a whole number of ticks.  A frame is one     *)
(* gray level in 0..MaxGray; the difference score of two frames is the     *)
(* absolute difference of their levels and shot_detection_threshold is in  *)
(* the same unit.                                                          *)
(***************************************************************************)

\* line 172: the 0.5 seconds below which a shot is skipped, in ticks
HalfSecond == 6
TicksPerSecond == 2 * HalfSecond

\* what video.fps can be: missing, zero, negative, or a rate dividing 12
FpsValues == { NoNumber } \cup { Num(x) : x \in { 0, -1, 1, 2, 3 } }

\* what video.duration can be: missing, zero, negative, or a number of ticks
DurationValues ==
    { NoNumber } \cup { Num(x) : x \in { 0, -1 } \cup (1..MaxDuration) }

\* shot_detection_threshold values, in gray levels
DiffThresholds == 0..MaxGray

\* what the requested asset can be
AssetKinds == { "missing", "not_video", "no_data", "bad_format", "video" }

\* the value standing for a feature vector returned by extract_features
SomeFeatures == "features"

\* lines 134-137 with `is None or < 0` in place of `not x or x <= 0`
InvalidPropertyNegativeOnly(x) == IF x = NoNumber THEN TRUE ELSE Val(x) < 0

\* lines 134-137: `not x or x <= 0`, for x = fps and x = duration
InvalidProperty(x) ==
    IF x = NoNumber THEN TRUE ELSE (Val(x) = 0 \/ Val(x) <= 0)

\* line 145: sample_interval = max(1, int(fps / 2))
sample_interval(f) == IF f \div 2 > 1 THEN f \div 2 ELSE 1

\* line 147: the step of np.arange, 1/fps * sample_interval, in ticks
SampleStep(f) == (TicksPerSecond \div f) * sample_interval(f)

Abs(x) == IF x < 0 THEN -x ELSE x

\* lines 153-154: diff_score of two gray frames
diff_score(frame_gray, prev) == Abs(frame_gray - prev)

\* line 156 with >= in place of >
IsCutInclusive(score, threshold) == score >= threshold

\* line 156: diff_score > request.shot_detection_threshold
IsCut(score, threshold) == score > threshold

\* line 159 keeping the first frame as the reference of every comparison
KeepFirstFrame(prev, frame_gray) ==
    IF prev = NoNumber THEN Num(frame_gray) ELSE prev

\* line 159: prev_frame = frame_gray
NextPrevFrame(prev, frame_gray) == Num(frame_gray)

\* line 168 taking the end of the video as the end of every shot
ShotEndLast(boundaries, i) == boundaries[Len(boundaries)]

\* line 168: end_time_shot = shot_boundaries[i + 1]
ShotEnd(boundaries, i) == boundaries[i + 1]

\* line 169 without the subtraction
ShotDurationEndOnly(start, end) == end

\* line 169: shot_duration = end_time_shot - start_time_shot
ShotDuration(start, end) == end - start

\* line 172 skipping nothing
TooShortNever(shot_duration) == FALSE

\* line 172: if shot_duration < 0.5
TooShort(shot_duration) == shot_duration < HalfSecond

\* lines 197-210: the shot_analysis record (timing fields and features; the
\* movement, composition and tag fields do not influence the control flow)
ShotAnalysis(i, start, end, dur, features) ==
    [ shot_index      |-> i - 1,
      start_timestamp |-> start,
      end_timestamp   |-> end,
      duration        |-> dur,
      features        |-> features ]

SegInit ==
    /\ s_pc = "request"
    /\ video_asset \in AssetKinds
    /\ fps \in (IF video_asset = "video" THEN FpsValues ELSE { NoNumber })
    /\ duration \in
          (IF video_asset = "video" THEN DurationValues ELSE { NoNumber })
    /\ shot_detection_threshold \in
          (IF video_asset = "video" THEN DiffThresholds ELSE { 0 })
    /\ extract_keyframes \in BOOLEAN
    /\ temp_file = FALSE
    /\ video_open = FALSE
    /\ s_t = 0
    /\ prev_frame = NoNumber
    /\ shot_boundaries = << >>
    /\ s_i = 0
    /\ shot_analyses = << >>
    /\ frames = << >>
    /\ sample_times = << >>
    /\ embed_failed = {}
    /\ GroupIdle
    /\ OthersIdle

\* lines 98-101: the asset does not exist -> 404
SegNotFound ==
    /\ s_pc = "request"
    /\ video_asset = "missing"
    /\ s_pc' = "http404"
    /\ UNCHANGED << gvars, ovars, video_asset, fps, duration, shot_detection_threshold,
                    extract_keyframes, temp_file, video_open, s_t, prev_frame,
                    shot_boundaries, s_i, shot_analyses, frames, sample_times,
                    embed_failed >>

\* lines 104-108: the asset is not a video -> 400
SegNotVideo ==
    /\ s_pc = "request"
    /\ video_asset = "not_video"
    /\ s_pc' = "http400"
    /\ UNCHANGED << gvars, ovars, video_asset, fps, duration, shot_detection_threshold,
                    extract_keyframes, temp_file, video_open, s_t, prev_frame,
                    shot_boundaries, s_i, shot_analyses, frames, sample_times,
                    embed_failed >>

\* lines 111-115: storage has no data for the asset -> 404
SegNoData ==
    /\ s_pc = "request"
    /\ video_asset = "no_data"
    /\ s_pc' = "http404"
    /\ UNCHANGED << gvars, ovars, video_asset, fps, duration, shot_detection_threshold,
                    extract_keyframes, temp_file, video_open, s_t, prev_frame,
                    shot_boundaries, s_i, shot_analyses, frames, sample_times,
                    embed_failed >>

\* lines 118-120: the video bytes are written to the temporary file
SegWriteTemp ==
    /\ s_pc = "request"
    /\ video_asset \in { "bad_format", "video" }
    /\ temp_file' = TRUE
    /\ s_pc' = "written"
    /\ UNCHANGED << gvars, ovars, video_asset, fps, duration, shot_detection_threshold,
                    extract_keyframes, video_open, s_t, prev_frame,
                    shot_boundaries, s_i, shot_analyses, frames, sample_times,
                    embed_failed >>

\* lines 123-129: VideoFileClip raises -> 400
SegOpenFail ==
    /\ s_pc = "written"
    /\ video_asset = "bad_format"
    /\ s_pc' = "http400"
    /\ UNCHANGED << gvars, ovars, video_asset, fps, duration, shot_detection_threshold,
                    extract_keyframes, temp_file, video_open, s_t, prev_frame,
                    shot_boundaries, s_i, shot_analyses, frames, sample_times,
                    embed_failed >>

\* lines 124, 130-131: the clip is opened, fps and duration are read
SegOpen ==
    /\ s_pc = "written"
    /\ video_asset = "video"
    /\ video_open' = TRUE
    /\ s_pc' = "opened"
    /\ UNCHANGED << gvars, ovars, video_asset, fps, duration, shot_detection_threshold,
                    extract_keyframes, temp_file, s_t, prev_frame,
                    shot_boundaries, s_i, shot_analyses, frames, sample_times,
                    embed_failed >>

\* lines 134-137: invalid fps or duration -> 400
SegInvalid ==
    /\ s_pc = "opened"
    /\ InvalidProperty(fps) \/ InvalidProperty(duration)
    /\ s_pc' = "http400"
    /\ UNCHANGED << gvars, ovars, video_asset, fps, duration, shot_detection_threshold,
                    extract_keyframes, temp_file, video_open, s_t, prev_frame,
                    shot_boundaries, s_i, shot_analyses, frames, sample_times,
                    embed_failed >>

\* lines 140-147: the scan starts at t = 0 with shot_boundaries = [0]
SegStartScan ==
    /\ s_pc = "opened"
    /\ ~(InvalidProperty(fps) \/ InvalidProperty(duration))
    /\ shot_analyses' = << >>
    /\ prev_frame' = NoNumber
    /\ shot_boundaries' = << 0 >>
    /\ s_t' = 0
    /\ s_pc' = "scan"
    /\ UNCHANGED << gvars, ovars, video_asset, fps, duration, shot_detection_threshold,
                    extract_keyframes, temp_file, video_open, s_i, frames,
                    sample_times, embed_failed >>

\* lines 147-159: one iteration of the scan, on the frame at t
ScanFrame ==
    /\ s_pc = "scan"
    /\ s_t < Val(duration)
    /\ \E frame_gray \in 0..MaxGray :
        /\ shot_boundaries' =
              IF /\ prev_frame # NoNumber
                 /\ IsCut(diff_score(frame_gray, Val(prev_frame)),
                          shot_detection_threshold)
              THEN Append(shot_boundaries, s_t)
              ELSE shot_boundaries
        /\ prev_frame' = NextPrevFrame(prev_frame, frame_gray)
        /\ frames' = Append(frames, frame_gray)
    /\ sample_times' = Append(sample_times, s_t)
    /\ s_t' = s_t + SampleStep(Val(fps))
    /\ UNCHANGED << gvars, ovars, s_pc, video_asset, fps, duration,
                    shot_detection_threshold, extract_keyframes, temp_file,
                    video_open, s_i, shot_analyses, embed_failed >>

\* lines 148, 235-237: video.get_frame raises during the scan -> 500
ScanFail ==
    /\ s_pc = "scan"
    /\ s_t < Val(duration)
    /\ s_pc' = "http500"
    /\ UNCHANGED << gvars, ovars, video_asset, fps, duration, shot_detection_threshold,
                    extract_keyframes, temp_file, video_open, s_t, prev_frame,
                    shot_boundaries, s_i, shot_analyses, frames, sample_times,
                    embed_failed >>

\* line 161: the scan is over, duration closes the boundary list
ScanEnd ==
    /\ s_pc = "scan"
    /\ s_t >= Val(duration)
    /\ shot_boundaries' = Append(shot_boundaries, Val(duration))
    /\ s_i' = 1
    /\ s_pc' = "shots"
    /\ UNCHANGED << gvars, ovars, video_asset, fps, duration, shot_detection_threshold,
                    extract_keyframes, temp_file, video_open, s_t, prev_frame,
                    shot_analyses, frames, sample_times, embed_failed >>

\* lines 166-173 merging a short interval into the following one instead of
\* skipping it: its end boundary is removed
SkipShotMerge ==
    /\ s_pc = "shots"
    /\ s_i <= Len(shot_boundaries) - 1
    /\ TooShort(ShotDuration(shot_boundaries[s_i], ShotEnd(shot_boundaries, s_i)))
    /\ shot_boundaries' =
          [k \in 1..(Len(shot_boundaries) - 1) |->
              IF k <= s_i THEN shot_boundaries[k] ELSE shot_boundaries[k + 1]]
    /\ UNCHANGED << gvars, ovars, s_pc, video_asset, fps, duration,
                    shot_detection_threshold, extract_keyframes, temp_file,
                    video_open, s_t, prev_frame, s_i, shot_analyses,
                    frames, sample_times, embed_failed >>

\* lines 166-173: the interval is shorter than 0.5 s -> continue
SkipShot ==
    /\ s_pc = "shots"
    /\ s_i <= Len(shot_boundaries) - 1
    /\ TooShort(ShotDuration(shot_boundaries[s_i], ShotEnd(shot_boundaries, s_i)))
    /\ s_i' = s_i + 1
    /\ UNCHANGED << gvars, ovars, s_pc, video_asset, fps, duration,
                    shot_detection_threshold, extract_keyframes, temp_file,
                    video_open, s_t, prev_frame, shot_boundaries, shot_analyses,
                    frames, sample_times, embed_failed >>

\* lines 180-186 aborting the run when extract_features raises
KeepShotAbortOnFailure ==
    /\ s_pc = "shots"
    /\ s_i <= Len(shot_boundaries) - 1
    /\ LET start == shot_boundaries[s_i]
           end   == ShotEnd(shot_boundaries, s_i)
           dur   == ShotDuration(start, end)
       IN  /\ ~TooShort(dur)
           /\ \E raised \in (IF extract_keyframes THEN BOOLEAN ELSE { FALSE }) :
                IF raised
                THEN /\ embed_failed' = embed_failed \cup { s_i - 1 }
                     /\ s_pc' = "http500"
                     /\ UNCHANGED << shot_analyses, s_i >>
                ELSE /\ shot_analyses' = Append(shot_analyses,
                            ShotAnalysis(s_i, start, end, dur,
                                IF extract_keyframes THEN SomeFeatures ELSE None))
                     /\ s_i' = s_i + 1
                     /\ UNCHANGED << embed_failed, s_pc >>
    /\ UNCHANGED << gvars, ovars, video_asset, fps, duration,
                    shot_detection_threshold, extract_keyframes, temp_file,
                    video_open, s_t, prev_frame, shot_boundaries, frames,
                    sample_times >>

\* lines 175-212: the interval is kept.  When keyframes are requested,
\* extract_features either returns features or raises; the exception is
\* caught and logged (lines 185-186) and features stays None.
KeepShot ==
    /\ s_pc = "shots"
    /\ s_i <= Len(shot_boundaries) - 1
    /\ LET start == shot_boundaries[s_i]
           end   == ShotEnd(shot_boundaries, s_i)
           dur   == ShotDuration(start, end)
       IN  /\ ~TooShort(dur)
           /\ \E raised \in (IF extract_keyframes THEN BOOLEAN ELSE { FALSE }) :
                /\ embed_failed' =
                      IF raised THEN embed_failed \cup { s_i - 1 }
                      ELSE embed_failed
                /\ shot_analyses' = Append(shot_analyses,
                      ShotAnalysis(s_i, start, end, dur,
                          IF extract_keyframes /\ ~raised
                          THEN SomeFeatures ELSE None))
    /\ s_i' = s_i + 1
    /\ UNCHANGED << gvars, ovars, s_pc, video_asset, fps, duration,
                    shot_detection_threshold, extract_keyframes, temp_file,
                    video_open, s_t, prev_frame, shot_boundaries, frames,
                    sample_times >>

\* lines 177, 189, 235-237: video.get_frame raises for the keyframe or in
\* analyze_camera_movement -> 500
ShotFail ==
    /\ s_pc = "shots"
    /\ s_i <= Len(shot_boundaries) - 1
    /\ ~TooShort(ShotDuration(shot_boundaries[s_i], ShotEnd(shot_boundaries, s_i)))
    /\ s_pc' = "http500"
    /\ UNCHANGED << gvars, ovars, video_asset, fps, duration, shot_detection_threshold,
                    extract_keyframes, temp_file, video_open, s_t, prev_frame,
                    shot_boundaries, s_i, shot_analyses, frames, sample_times,
                    embed_failed >>

\* lines 214-231: the clip is closed, the temporary file removed, the
\* response returned
SegReturn ==
    /\ s_pc = "shots"
    /\ s_i > Len(shot_boundaries) - 1
    /\ video_open' = FALSE
    /\ temp_file' = FALSE
    /\ s_pc' = "done"
    /\ UNCHANGED << gvars, ovars, video_asset, fps, duration, shot_detection_threshold,
                    extract_keyframes, s_t, prev_frame, shot_boundaries, s_i,
                    shot_analyses, frames, sample_times, embed_failed >>

SegNext ==
    \/ SegNotFound
    \/ SegNotVideo
    \/ SegNoData
    \/ SegWriteTemp
    \/ SegOpenFail
    \/ SegOpen
    \/ SegInvalid
    \/ SegStartScan
    \/ ScanFrame
    \/ ScanFail
    \/ ScanEnd
    \/ SkipShot
    \/ KeepShot
    \/ ShotFail
    \/ SegReturn

SpecSeg == SegInit /\ [][SegNext]_vars

(***************************************************************************)
(* Claims about segment (checked under SpecSeg)                            *)
(***************************************************************************)

\* the frame scan is over and the run has not failed
ScanOver == s_pc \in { "shots", "done" }

\* the timestamps of the samples whose frame differs from the frame of the
\* sample before by more than the threshold, among the first k samples
RECURSIVE CutsUpTo(_)
CutsUpTo(k) ==
    IF k <= 1 THEN << >>
    ELSE IF Abs(frames[k] - frames[k - 1]) > shot_detection_threshold
         THEN Append(CutsUpTo(k - 1), sample_times[k])
         ELSE CutsUpTo(k - 1)

\* the boundary list the sampled frames determine
DetectedBoundaries ==
    << 0 >> \o CutsUpTo(Len(frames)) \o << Val(duration) >>

\* interval k of the detected boundaries lasts at least half a second
IntervalKept(k) ==
    2 * (DetectedBoundaries[k + 1] - DetectedBoundaries[k]) >= TicksPerSecond

\* the shots of the response, once it is returned
Returned(p) == shot_analyses[p]

\* C4: no shot of the returned list (nor of the list while it is built) has a
\* duration below 0.5 seconds.
C4_NoShortShot ==
    \A p \in 1..Len(shot_analyses) :
        /\ 2 * shot_analyses[p].duration >= TicksPerSecond
        /\ 2 * (shot_analyses[p].end_timestamp
                  - shot_analyses[p].start_timestamp) >= TicksPerSecond

\* a returned list with a shot of exactly 0.5 s, from a run that dropped a
\* shorter interval
C4_Witness ==
    /\ s_pc = "done"
    /\ \E p \in 1..Len(shot_analyses) : shot_analyses[p].duration = HalfSecond
    /\ \E k \in 1..(Len(shot_boundaries) - 1) :
          shot_boundaries[k + 1] - shot_boundaries[k] < HalfSecond

\* C5: the returned shots are pairwise non-overlapping, in increasing start
\* time, inside [0, video duration], with start < end and
\* duration = end - start.
C5_OrderedDisjointInside ==
    s_pc = "done" =>
        /\ \A p \in 1..Len(shot_analyses) :
              /\ 0 <= Returned(p).start_timestamp
              /\ Returned(p).start_timestamp < Returned(p).end_timestamp
              /\ Returned(p).end_timestamp <= Val(duration)
              /\ Returned(p).duration =
                    Returned(p).end_timestamp - Returned(p).start_timestamp
        /\ \A p, q \in 1..Len(shot_analyses) :
              p < q =>
                 /\ Returned(p).start_timestamp < Returned(q).start_timestamp
                 /\ Returned(p).end_timestamp <= Returned(q).start_timestamp

\* a response with three shots
C5_Witness ==
    /\ s_pc = "done"
    /\ Len(shot_analyses) >= 3

\* C6 as stated: consecutive returned shots touch, the first starts at 0 and
\* the last ends at the video duration.
C6_Original ==
    s_pc = "done" =>
        /\ \A p \in 1..(Len(shot_analyses) - 1) :
              Returned(p).end_timestamp = Returned(p + 1).start_timestamp
        /\ Len(shot_analyses) >= 1 =>
              /\ Returned(1).start_timestamp = 0
              /\ Returned(Len(shot_analyses)).end_timestamp = Val(duration)

\* C6 amended: of two consecutive returned shots the earlier ends no later
\* than the later starts, and they touch exactly when no interval between
\* them was dropped; the first returned shot starts at 0 exactly when the
\* first interval was not dropped, the last ends at the video duration
\* exactly when the last interval was not dropped.
C6_Amended ==
    s_pc = "done" =>
        /\ \A p \in 1..(Len(shot_analyses) - 1) :
              /\ Returned(p).end_timestamp <= Returned(p + 1).start_timestamp
              /\ (Returned(p).end_timestamp = Returned(p + 1).start_timestamp)
                    <=> (Returned(p + 1).shot_index = Returned(p).shot_index + 1)
        /\ Len(shot_analyses) >= 1 =>
              /\ (Returned(1).start_timestamp = 0)
                    <=> IntervalKept(1)
              /\ (Returned(Len(shot_analyses)).end_timestamp = Val(duration))
                    <=> IntervalKept(Len(DetectedBoundaries) - 1)

\* a response with a gap between two consecutive shots
C6_Witness ==
    /\ s_pc = "done"
    /\ \E p \in 1..(Len(shot_analyses) - 1) :
          Returned(p).end_timestamp < Returned(p + 1).start_timestamp

\* C7: the scan visits the sample timestamps in strictly increasing order and
\* compares each frame with the one sampled just before; the boundary list is
\* [0], then every sample timestamp whose frame differs from the preceding
\* sample's by strictly more than the threshold, then the duration.
C7_Boundaries ==
    ScanOver =>
        /\ \A k \in 1..Len(sample_times) :
              /\ sample_times[k] = (k - 1) * SampleStep(Val(fps))
              /\ sample_times[k] < Val(duration)
        /\ Len(sample_times) * SampleStep(Val(fps)) >= Val(duration)
        /\ \A k \in 1..(Len(sample_times) - 1) :
              sample_times[k] < sample_times[k + 1]
        /\ shot_boundaries = DetectedBoundaries
        /\ shot_boundaries[1] = 0
        /\ \A k \in 2..Len(shot_boundaries) : shot_boundaries[k] # 0

\* a finished scan in which one difference exceeds the threshold, one
\* equals it and makes no boundary, and a frame differs from the first frame
\* but not from its predecessor
C7_Witness ==
    /\ ScanOver
    /\ Len(frames) >= 4
    /\ shot_detection_threshold >= 1
    /\ \E k \in 2..Len(frames) :
          Abs(frames[k] - frames[k - 1]) > shot_detection_threshold
    /\ \E k \in 2..Len(frames) :
          /\ Abs(frames[k] - frames[k - 1]) = shot_detection_threshold
          /\ sample_times[k] \notin { shot_boundaries[b] : b \in 1..Len(shot_boundaries) }
    /\ \E k \in 3..Len(frames) :
          /\ frames[k] = frames[k - 1]
          /\ Abs(frames[k] - frames[1]) > shot_detection_threshold

\* C8: short intervals are dropped, not merged: every returned shot is
\* exactly one pair of consecutive detected boundaries, the returned shots
\* are exactly the intervals of at least 0.5 s, and no returned shot covers
\* any part of a dropped interval.
C8_DroppedNotMerged ==
    s_pc = "done" =>
        /\ \A p \in 1..Len(shot_analyses) :
              LET k == Returned(p).shot_index + 1 IN
              /\ k \in 1..(Len(DetectedBoundaries) - 1)
              /\ Returned(p).start_timestamp = DetectedBoundaries[k]
              /\ Returned(p).end_timestamp = DetectedBoundaries[k + 1]
        /\ \A k \in 1..(Len(DetectedBoundaries) - 1) :
              IF IntervalKept(k)
              THEN \E p \in 1..Len(shot_analyses) : Returned(p).shot_index = k - 1
              ELSE \A p \in 1..Len(shot_analyses) :
                      \/ Returned(p).end_timestamp <= DetectedBoundaries[k]
                      \/ Returned(p).start_timestamp >= DetectedBoundaries[k + 1]

\* a response in which a dropped interval lies between two returned shots
C8_Witness ==
    /\ s_pc = "done"
    /\ \E k \in 2..(Len(DetectedBoundaries) - 2) :
          /\ ~IntervalKept(k)
          /\ \E p, q \in 1..Len(shot_analyses) :
                /\ Returned(p).end_timestamp = DetectedBoundaries[k]
                /\ Returned(q).start_timestamp = DetectedBoundaries[k + 1]

\* the 0-based indices of the intervals of shot_boundaries that last at least
\* half a second, in increasing order, among the first k intervals
RECURSIVE KeptUpTo(_)
KeptUpTo(k) ==
    IF k = 0 THEN << >>
    ELSE IF 2 * (shot_boundaries[k + 1] - shot_boundaries[k]) >= TicksPerSecond
         THEN Append(KeptUpTo(k - 1), k - 1)
         ELSE KeptUpTo(k - 1)

\* C9: a failing embedding call does not abort the run: the shot is kept with
\* all its other fields and features = None, and the response lists the same
\* shots, with the same fields, as a run in which no call failed.
C9_EmbeddingFailureTolerated ==
    /\ \A x \in embed_failed :
          \E p \in 1..Len(shot_analyses) :
              /\ shot_analyses[p].shot_index = x
              /\ shot_analyses[p].features = None
              /\ shot_analyses[p].start_timestamp = shot_boundaries[x + 1]
              /\ shot_analyses[p].end_timestamp = shot_boundaries[x + 2]
              /\ shot_analyses[p].duration =
                    shot_boundaries[x + 2] - shot_boundaries[x + 1]
    /\ s_pc = "done" =>
          LET kept == KeptUpTo(Len(shot_boundaries) - 1) IN
          /\ Len(shot_analyses) = Len(kept)
          /\ \A p \in 1..Len(kept) :
                /\ Returned(p).shot_index = kept[p]
                /\ Returned(p).start_timestamp = shot_boundaries[kept[p] + 1]
                /\ Returned(p).end_timestamp = shot_boundaries[kept[p] + 2]
                /\ Returned(p).duration =
                      shot_boundaries[kept[p] + 2] - shot_boundaries[kept[p] + 1]
                /\ (Returned(p).features = SomeFeatures)
                      <=> (extract_keyframes /\ kept[p] \notin embed_failed)
                /\ Returned(p).features \in { SomeFeatures, None }

\* a response in which the embedding failed for one shot and succeeded for
\* another
C9_Witness ==
    /\ s_pc = "done"
    /\ extract_keyframes
    /\ \E p, q \in 1..Len(shot_analyses) :
          /\ Returned(p).shot_index \in embed_failed
          /\ Returned(p).features = None
          /\ Returned(q).shot_index \notin embed_failed
          /\ Returned(q).features = SomeFeatures

\* the frame source reports a missing or non-positive fps or duration
ReportsInvalid ==
    \/ fps = NoNumber
    \/ duration = NoNumber
    \/ (fps # NoNumber /\ Val(fps) <= 0)
    \/ (duration # NoNumber /\ Val(duration) <= 0)

\* C10: when the opened video reports fps <= 0 or duration <= 0 (or either is
\* missing), the request ends with HTTP 400, no frame is scanned and no shot
\* is returned.
C10_InvalidVideo ==
    (video_open /\ ReportsInvalid /\ s_pc # "opened") =>
        /\ s_pc = "http400"
        /\ frames = << >>
        /\ sample_times = << >>
        /\ shot_boundaries = << >>
        /\ shot_analyses = << >>

\* a request rejected for a zero duration at a valid frame rate
C10_Witness ==
    /\ s_pc = "http400"
    /\ video_open
    /\ fps = Num(2)
    /\ duration = Num(0)

(***************************************************************************)
(* Part 3: ShotRanker, app/routers/video_analysis.py :: suggest_shots and  *)
(*         calculate_shot_relevance.                                       *)
(*                                                                         *)
(* A text is the sequence of its whitespace-separated words (the result    *)
(* of str.split()); a missing list or text is Nothing, a present one is    *)
(* Just(sequence).  A shot is named by its position in the shot store.     *)
(***************************************************************************)
\* largest request.limit
MaxLimit == 2

\* Optional[...] of the source where the value is a sequence
Nothing == << >>
Just(x) == << x >>
The(o) == o[1]

\* Python truthiness of an Optional list or text: neither None nor empty
Truthy(o) == o # Nothing /\ Len(The(o)) > 0

\* Python truthiness of an Optional[str] that the model keeps as a string
TruthyStr(x) == x # None /\ x # ""

\* set(list)
SetOf(seq) == { seq[k] : k \in 1..Len(seq) }

\* str.lower(), on the words of the model
Lower(w) == CASE w = "Dark" -> "dark"
              [] w = "Room" -> "room"
              [] OTHER -> w

\* the VideoShot documents of the model: emotional_tone, tags, scene_description
ShotProfiles ==
    { [emotional_tone |-> "calm", tags |-> Just(<< "pan", "wide" >>),
       scene_description |-> Just(<< "Dark", "room" >>)],
      [emotional_tone |-> "calm", tags |-> Just(<< "wide", "wide" >>),
       scene_description |-> Just(<< "dark", "dark" >>)],
      [emotional_tone |-> "tense", tags |-> Nothing,
       scene_description |-> Nothing],
      [emotional_tone |-> None, tags |-> Just(<< "pan" >>),
       scene_description |-> Just(<< >>)] }

\* SuggestShotsRequest (lines 69-74), with limit >= 0
SuggestShotsRequests ==
    [ scene_description : { Just(<< >>), Just(<< "dark", "Room", "dark" >>) },
      emotional_tone : { None, "", "calm" },
      desired_tags : { Nothing, Just(<< >>), Just(<< "wide" >>),
                       Just(<< "pan", "wide", "pan" >>) },
      limit : 0..MaxLimit ]

\* the indices of the set S in ascending order: the order of a scan that
\* keeps the entries of S
Ascending(S) ==
    [ p \in 1..Cardinality(S) |->
        CHOOSE k \in S : Cardinality({ j \in S : j < k }) = p - 1 ]

\* cursor.limit(n).to_list(): the first n documents; a limit of 0 is no limit
CursorLimit(seq, n) ==
    IF n = 0 \/ n >= Len(seq) THEN seq ELSE SubSeq(seq, 1, n)

\* lines 382-393: the shots the store returns for the query filter
FindShots(store, request) ==
    LET matches == { k \in 1..Len(store) :
                        TruthyStr(request.emotional_tone)
                            => store[k].emotional_tone = request.emotional_tone }
    IN  CursorLimit(Ascending(matches), request.limit * 2)

\* line 398: shot.tags and any(tag in shot.tags for tag in request.desired_tags)
HasDesiredTag(shot, desired_tags) ==
    /\ Truthy(shot.tags)
    /\ \E k \in 1..Len(desired_tags) : desired_tags[k] \in SetOf(The(shot.tags))

\* lines 396-400: filtered_shots
FilterByTags(store, idxs, desired_tags) ==
    LET kept == Ascending({ p \in 1..Len(idxs) :
                                HasDesiredTag(store[idxs[p]], desired_tags) })
    IN  [ p \in 1..Len(kept) |-> idxs[kept[p]] ]

\* line 657 comparing the words as they are written
CommonWordsCaseSensitive(a, b) == SetOf(a) \cap SetOf(b)

\* line 657: set(a.lower().split()) & set(b.lower().split())
CommonWords(a, b) ==
    { Lower(a[k]) : k \in 1..Len(a) } \cap { Lower(b[k]) : k \in 1..Len(b) }

\* lines 642-660
calculate_shot_relevance(shot, scene_description, emotional_tone, desired_tags) ==
    LET tag_score ==
            IF Truthy(desired_tags) /\ Truthy(shot.tags)
            THEN Cardinality(SetOf(The(desired_tags)) \cap SetOf(The(shot.tags))) * 10
            ELSE 0
        tone_score ==
            IF TruthyStr(emotional_tone) /\ shot.emotional_tone = emotional_tone
            THEN 20 ELSE 0
        word_score ==
            IF Truthy(scene_description) /\ Truthy(shot.scene_description)
            THEN Cardinality(CommonWords(The(scene_description),
                                         The(shot.scene_description))) * 5
            ELSE 0
    IN  tag_score + tone_score + word_score

\* line 434: the place of entry k after a stable sort in descending order of the keys
PlaceDesc(keys, k) ==
    1 + Cardinality({ j \in 1..Len(keys) :
                        keys[j] > keys[k] \/ (keys[j] = keys[k] /\ j < k) })

\* line 434 as an ascending sort whose result is then reversed
SortByRelevanceReversedAscending(recs) ==
    LET n == Len(recs)
        key(k) == recs[k].relevance_score
        place(k) == 1 + Cardinality({ j \in 1..n :
                        key(j) > key(k) \/ (key(j) = key(k) /\ j > k) })
    IN  [ p \in 1..n |-> recs[CHOOSE k \in 1..n : place(k) = p] ]

\* line 434: shot_recommendations.sort(key=relevance_score, reverse=True);
\* list.sort is stable, with reverse=True as well
SortByRelevance(recs) ==
    LET n == Len(recs)
        keys == [ k \in 1..n |-> recs[k].relevance_score ]
    IN  [ p \in 1..n |-> recs[CHOOSE k \in 1..n : PlaceDesc(keys, k) = p] ]

\* line 435: seq[:n], for n >= 0
Prefix(seq, n) == IF n >= Len(seq) THEN seq ELSE SubSeq(seq, 1, n)

\* the components other than suggest_shots
RankRest == << gvars, svars, mvars, avars, cvars, bvars, kvars, evars, uvars, xvars, lvars >>
RankOthersIdle == GroupIdle /\ SegIdle /\ MatchIdle /\ AnomalyIdle /\ ClusterIdle /\ BatchIdle /\ ConfigIdle /\ EnforceIdle /\ UploadIdle /\ ExtractIdle /\ LocatorIdle

RankInit ==
    /\ r_pc = "request"
    /\ shot_store \in SeqsOf(ShotProfiles, 0, MaxN)
    /\ suggest_request \in SuggestShotsRequests
    /\ shots = << >>
    /\ shot_recommendations = << >>
    /\ r_response = << >>
    /\ RankOthersIdle

\* lines 382-393: the query with the tone filter and limit(request.limit * 2)
SuggestFind ==
    /\ r_pc = "request"
    /\ shots' = FindShots(shot_store, suggest_request)
    /\ r_pc' = "tags"
    /\ UNCHANGED << RankRest, shot_store, suggest_request, shot_recommendations,
                    r_response >>

\* lines 395-400: `if request.desired_tags:` keeps the shots with a desired tag
SuggestFilterTags ==
    /\ r_pc = "tags"
    /\ Truthy(suggest_request.desired_tags)
    /\ shots' = FilterByTags(shot_store, shots, The(suggest_request.desired_tags))
    /\ r_pc' = "check"
    /\ UNCHANGED << RankRest, shot_store, suggest_request, shot_recommendations,
                    r_response >>

\* line 395 when no tag is desired
SuggestNoTags ==
    /\ r_pc = "tags"
    /\ ~Truthy(suggest_request.desired_tags)
    /\ r_pc' = "check"
    /\ UNCHANGED << RankRest, shot_store, suggest_request, shots,
                    shot_recommendations, r_response >>

\* lines 402-408: `if not shots:` returns an empty recommendation list
SuggestEmpty ==
    /\ r_pc = "check"
    /\ shots = << >>
    /\ r_response' = [recommendations |-> << >>, total_found |-> 0]
    /\ r_pc' = "done"
    /\ UNCHANGED << RankRest, shot_store, suggest_request, shots,
                    shot_recommendations >>

\* lines 413-431: one pass of `for shot in shots`
SuggestScore ==
    /\ r_pc = "check"
    /\ shots # << >>
    /\ Len(shot_recommendations) < Len(shots)
    /\ LET shot_id == shots[Len(shot_recommendations) + 1]
           relevance_score ==
               calculate_shot_relevance(shot_store[shot_id],
                   suggest_request.scene_description,
                   suggest_request.emotional_tone,
                   suggest_request.desired_tags)
       IN  shot_recommendations' = Append(shot_recommendations,
               [shot_id |-> shot_id, relevance_score |-> relevance_score])
    /\ UNCHANGED << RankRest, r_pc, shot_store, suggest_request, shots,
                    r_response >>

\* lines 434-446: sort by relevance, keep the first request.limit, return
SuggestReturn ==
    /\ r_pc = "check"
    /\ shots # << >>
    /\ Len(shot_recommendations) = Len(shots)
    /\ shot_recommendations' =
           Prefix(SortByRelevance(shot_recommendations), suggest_request.limit)
    /\ r_response' = [recommendations |-> shot_recommendations',
                      total_found |-> Len(shots)]
    /\ r_pc' = "done"
    /\ UNCHANGED << RankRest, shot_store, suggest_request, shots >>

RankNext ==
    \/ SuggestFind
    \/ SuggestFilterTags
    \/ SuggestNoTags
    \/ SuggestEmpty
    \/ SuggestScore
    \/ SuggestReturn

SpecRank == RankInit /\ [][RankNext]_vars

(***************************************************************************)
(* Claims on Part 3.                                                       *)
(***************************************************************************)
\* suggest_shots has returned
Suggested == r_pc = "done"

\* the relevance of the shot at position id of the store, for the request
RelevanceOf(id) ==
    calculate_shot_relevance(shot_store[id], suggest_request.scene_description,
        suggest_request.emotional_tone, suggest_request.desired_tags)

\* the place of shot id in the list the store returned (after the tag filter)
PlaceInShots(id) == CHOOSE p \in 1..Len(shots) : shots[p] = id

\* shot a is ranked before shot b: higher relevance, or equal relevance and
\* returned earlier by the store
RankedBefore(a, b) ==
    \/ RelevanceOf(a) > RelevanceOf(b)
    \/ RelevanceOf(a) = RelevanceOf(b) /\ PlaceInShots(a) < PlaceInShots(b)

\* C11: the recommendations suggest_shots returns are in descending order of
\* relevance score, shots of equal relevance are in the order in which the
\* shot store returned them, and the list holds at most `limit` entries: the
\* first `limit` of that ranking of the shots found (all of them when fewer
\* were found).
C11_RankedAndTruncated ==
    Suggested =>
        LET recs == r_response.recommendations
            ids == { recs[p].shot_id : p \in 1..Len(recs) }
        IN  /\ Len(recs) <= suggest_request.limit
            /\ Len(recs) = IF Len(shots) < suggest_request.limit
                           THEN Len(shots) ELSE suggest_request.limit
            /\ ids \subseteq SetOf(shots)
            /\ \A p \in 1..Len(recs) : recs[p].relevance_score = RelevanceOf(recs[p].shot_id)
            /\ \A p, q \in 1..Len(recs) :
                   p < q => RankedBefore(recs[p].shot_id, recs[q].shot_id)
            /\ \A a \in ids : \A b \in SetOf(shots) \ ids : RankedBefore(a, b)

\* suggest_shots returned two recommendations of equal relevance, and cut off a
\* shot of lower relevance that the store had returned first
C11_Witness ==
    /\ Suggested
    /\ Len(shots) = 3
    /\ Len(r_response.recommendations) = 2
    /\ r_response.recommendations[1].relevance_score
           = r_response.recommendations[2].relevance_score
    /\ r_response.recommendations[1].shot_id = shots[2]
    /\ r_response.recommendations[2].shot_id = shots[3]
    /\ RelevanceOf(shots[1]) < RelevanceOf(shots[2])

\* the members of an optional list or text; none when it is missing
MembersOf(o) == IF o = Nothing THEN {} ELSE SetOf(The(o))

\* the lower-cased words of an optional text; none when it is missing
LowerWordsOf(o) == { Lower(w) : w \in MembersOf(o) }

\* C12: the relevance score of every recommendation is 10 times the number of
\* distinct tags common to the desired tags and the shot's tags, plus 20 when
\* a tone is requested and is the shot's tone, plus 5 times the number of
\* distinct lower-cased words common to the query text and the shot's
\* description; missing tags, tone or description contribute 0.
C12_Relevance ==
    \A p \in 1..Len(shot_recommendations) :
        LET shot == shot_store[shot_recommendations[p].shot_id]
            tone == suggest_request.emotional_tone
        IN  shot_recommendations[p].relevance_score =
                10 * Cardinality(MembersOf(suggest_request.desired_tags)
                                 \cap MembersOf(shot.tags))
                + (IF tone \notin { None, "" } /\ tone = shot.emotional_tone
                   THEN 20 ELSE 0)
                + 5 * Cardinality(LowerWordsOf(suggest_request.scene_description)
                                  \cap LowerWordsOf(shot.scene_description))

\* a recommendation whose score has all three parts: two common tags (one of
\* them desired twice), the requested tone, and two common words that differ
\* in case between the query and the description
C12_Witness ==
    \E p \in 1..Len(shot_recommendations) :
        LET shot == shot_store[shot_recommendations[p].shot_id]
        IN  /\ shot_recommendations[p].relevance_score = 50
            /\ suggest_request.desired_tags = Just(<< "pan", "wide", "pan" >>)
            /\ suggest_request.emotional_tone = "calm"
            /\ suggest_request.scene_description = Just(<< "dark", "Room", "dark" >>)
            /\ shot.scene_description = Just(<< "Dark", "room" >>)

(***************************************************************************)
(* Part 4: SimilarityEngine, app/core/dinov3_service.py ::                 *)
(*         calculate_similarity, and its ranking in                        *)
(*         app/routers/similarity.py :: find_best_match and                *)
(*         app/routers/analytics.py :: semantic_search.                    *)
(*                                                                         *)
(* An asset is named by its position in the request's list.  The lookup of *)
(* an asset by id is an input of the model: it yields the asset's features *)
(* or nothing.                                                             *)
(***************************************************************************)
\* feature vectors of the candidates: equal and different directions, the
\* zero vector, and a vector of another length
MatchVectors == { <<1, 0>>, <<2, 0>>, <<1, 1>>, <<0, 0>>, <<-1, 0>>, <<1>> }

\* feature vectors of the reference asset
ReferenceVectors == { <<1, 0>>, <<1, 1>>, <<1>> }

\* line 176: features1 - features2, squared and summed (the square of
\* np.linalg.norm), for vectors of the same length
SquaredDistance(a, b) ==
    LET d == [k \in 1..Len(a) |-> a[k] - b[k]] IN Dot(d, d)

\* lines 163-182 computing on the common prefix of the two vectors
calculate_similarity_truncating(features1, features2) ==
    LET n == IF Len(features1) < Len(features2) THEN Len(features1)
             ELSE Len(features2)
        a == SubSeq(features1, 1, n)
        b == SubSeq(features2, 1, n)
    IN  Just([similarity_percentage |-> SimilarityPercentage(a, b),
              squared_distance |-> SquaredDistance(a, b)])

\* lines 163-182.  sklearn's cosine_similarity (line 173) raises ValueError
\* when the two rows differ in length, before line 176 is reached: the
\* outcome is then Nothing, otherwise Just(the metrics).
calculate_similarity(features1, features2) ==
    IF Len(features1) # Len(features2) THEN Nothing
    ELSE Just([similarity_percentage |-> SimilarityPercentage(features1, features2),
               squared_distance |-> SquaredDistance(features1, features2)])

\* similarity.py line 124 and analytics.py line 65 as an ascending sort whose result is then reversed
SortBySimilarityReversedAscending(results) ==
    LET n == Len(results)
        key(k) == results[k].similarity_percentage
        place(k) == 1 + Cardinality({ j \in 1..n :
                        key(j) > key(k) \/ (key(j) = key(k) /\ j > k) })
    IN  [ p \in 1..n |-> results[CHOOSE k \in 1..n : place(k) = p] ]

\* similarity.py line 124 and analytics.py line 65:
\* results.sort(key=similarity percentage, reverse=True), a stable sort
SortBySimilarity(results) ==
    LET n == Len(results)
        keys == [ k \in 1..n |-> results[k].similarity_percentage ]
    IN  [ p \in 1..n |-> results[CHOOSE k \in 1..n : PlaceDesc(keys, k) = p] ]

\* the components other than the two ranking endpoints
MatchRest == << gvars, svars, rvars, avars, cvars, bvars, kvars, evars, uvars, xvars, lvars >>
MatchOthersIdle == GroupIdle /\ SegIdle /\ RankIdle /\ AnomalyIdle /\ ClusterIdle /\ BatchIdle /\ ConfigIdle /\ EnforceIdle /\ UploadIdle /\ ExtractIdle /\ LocatorIdle

MatchInit ==
    /\ m_pc = "request"
    /\ m_endpoint \in { "find_best_match", "semantic_search" }
    /\ reference_asset \in { Nothing } \cup { Just(v) : v \in ReferenceVectors }
    /\ candidate_assets \in
           SeqsOf({ Nothing } \cup { Just(v) : v \in MatchVectors }, 0, MaxN)
    /\ top_k \in IF m_endpoint = "semantic_search" THEN 0..MaxLimit ELSE { 0 }
    /\ m_k = 0
    /\ candidate_results = << >>
    /\ m_response = << >>
    /\ MatchOthersIdle

\* the entry a loop pass appends for candidate k with the given metrics
ResultEntry(k, metrics) ==
    [asset_id |-> k,
     similarity_percentage |-> metrics.similarity_percentage,
     squared_distance |-> metrics.squared_distance]

\* similarity.py lines 98-102: reference missing or without features -> 404
FindNotFound ==
    /\ m_pc = "request" /\ m_endpoint = "find_best_match"
    /\ reference_asset = Nothing
    /\ m_response' = [status |-> 404]
    /\ m_pc' = "done"
    /\ UNCHANGED << MatchRest, m_endpoint, reference_asset, candidate_assets,
                    top_k, m_k, candidate_results >>

\* similarity.py lines 104-107: reference_features, candidate_results = []
FindReference ==
    /\ m_pc = "request" /\ m_endpoint = "find_best_match"
    /\ reference_asset # Nothing
    /\ m_pc' = "loop"
    /\ UNCHANGED << MatchRest, m_endpoint, reference_asset, candidate_assets,
                    top_k, m_k, candidate_results, m_response >>

\* similarity.py lines 108-111: a candidate that is missing or has no features
FindSkip ==
    /\ m_pc = "loop" /\ m_endpoint = "find_best_match"
    /\ m_k < Len(candidate_assets)
    /\ candidate_assets[m_k + 1] = Nothing
    /\ m_k' = m_k + 1
    /\ UNCHANGED << MatchRest, m_pc, m_endpoint, reference_asset,
                    candidate_assets, top_k, candidate_results, m_response >>

\* similarity.py lines 111-121: a candidate with features is compared and
\* its entry appended
FindCompare ==
    /\ m_pc = "loop" /\ m_endpoint = "find_best_match"
    /\ m_k < Len(candidate_assets)
    /\ candidate_assets[m_k + 1] # Nothing
    /\ LET similarity_metrics ==
               calculate_similarity(The(reference_asset),
                                    The(candidate_assets[m_k + 1]))
       IN  /\ similarity_metrics # Nothing
           /\ candidate_results' = Append(candidate_results,
                  ResultEntry(m_k + 1, The(similarity_metrics)))
    /\ m_k' = m_k + 1
    /\ UNCHANGED << MatchRest, m_pc, m_endpoint, reference_asset,
                    candidate_assets, top_k, m_response >>

\* similarity.py lines 113 and 138-140: calculate_similarity raises, the
\* handler answers 500
FindError ==
    /\ m_pc = "loop" /\ m_endpoint = "find_best_match"
    /\ m_k < Len(candidate_assets)
    /\ candidate_assets[m_k + 1] # Nothing
    /\ calculate_similarity(The(reference_asset),
                            The(candidate_assets[m_k + 1])) = Nothing
    /\ m_response' = [status |-> 500]
    /\ m_pc' = "done"
    /\ UNCHANGED << MatchRest, m_endpoint, reference_asset, candidate_assets,
                    top_k, m_k, candidate_results >>

\* similarity.py lines 123-134: sort, best_match, ranked_results
FindReturn ==
    /\ m_pc = "loop" /\ m_endpoint = "find_best_match"
    /\ m_k = Len(candidate_assets)
    /\ candidate_results' = SortBySimilarity(candidate_results)
    /\ m_response' =
           [status |-> 200,
            candidates_processed |-> Len(candidate_results'),
            best_match |-> IF candidate_results' # << >>
                           THEN Just(candidate_results'[1]) ELSE Nothing,
            ranked_results |-> candidate_results']
    /\ m_pc' = "done"
    /\ UNCHANGED << MatchRest, m_endpoint, reference_asset, candidate_assets,
                    top_k, m_k >>

\* analytics.py lines 38-42: query asset missing or without features -> 404
SearchNotFound ==
    /\ m_pc = "request" /\ m_endpoint = "semantic_search"
    /\ reference_asset = Nothing
    /\ m_response' = [status |-> 404]
    /\ m_pc' = "done"
    /\ UNCHANGED << MatchRest, m_endpoint, reference_asset, candidate_assets,
                    top_k, m_k, candidate_results >>

\* analytics.py lines 44-47: query_features, search_results = []
SearchReference ==
    /\ m_pc = "request" /\ m_endpoint = "semantic_search"
    /\ reference_asset # Nothing
    /\ m_pc' = "loop"
    /\ UNCHANGED << MatchRest, m_endpoint, reference_asset, candidate_assets,
                    top_k, m_k, candidate_results, m_response >>

\* analytics.py lines 49-52: a dataset asset that is missing or has no features
SearchSkip ==
    /\ m_pc = "loop" /\ m_endpoint = "semantic_search"
    /\ m_k < Len(candidate_assets)
    /\ candidate_assets[m_k + 1] = Nothing
    /\ m_k' = m_k + 1
    /\ UNCHANGED << MatchRest, m_pc, m_endpoint, reference_asset,
                    candidate_assets, top_k, candidate_results, m_response >>

\* analytics.py lines 52-62: a dataset asset with features is compared and
\* its entry appended
SearchCompare ==
    /\ m_pc = "loop" /\ m_endpoint = "semantic_search"
    /\ m_k < Len(candidate_assets)
    /\ candidate_assets[m_k + 1] # Nothing
    /\ LET similarity_metrics ==
               calculate_similarity(The(reference_asset),
                                    The(candidate_assets[m_k + 1]))
       IN  /\ similarity_metrics # Nothing
           /\ candidate_results' = Append(candidate_results,
                  ResultEntry(m_k + 1, The(similarity_metrics)))
    /\ m_k' = m_k + 1
    /\ UNCHANGED << MatchRest, m_pc, m_endpoint, reference_asset,
                    candidate_assets, top_k, m_response >>

\* analytics.py lines 54 and 82-84: calculate_similarity raises, the handler
\* answers 500
SearchError ==
    /\ m_pc = "loop" /\ m_endpoint = "semantic_search"
    /\ m_k < Len(candidate_assets)
    /\ candidate_assets[m_k + 1] # Nothing
    /\ calculate_similarity(The(reference_asset),
                            The(candidate_assets[m_k + 1])) = Nothing
    /\ m_response' = [status |-> 500]
    /\ m_pc' = "done"
    /\ UNCHANGED << MatchRest, m_endpoint, reference_asset, candidate_assets,
                    top_k, m_k, candidate_results >>

\* analytics.py lines 64-78: sort, keep the first top_k, return
SearchReturn ==
    /\ m_pc = "loop" /\ m_endpoint = "semantic_search"
    /\ m_k = Len(candidate_assets)
    /\ candidate_results' = SortBySimilarity(candidate_results)
    /\ m_response' =
           [status |-> 200,
            results_found |-> Len(candidate_results'),
            search_results |-> Prefix(candidate_results', top_k)]
    /\ m_pc' = "done"
    /\ UNCHANGED << MatchRest, m_endpoint, reference_asset, candidate_assets,
                    top_k, m_k >>

MatchNext ==
    \/ FindNotFound
    \/ FindReference
    \/ FindSkip
    \/ FindCompare
    \/ FindError
    \/ FindReturn
    \/ SearchNotFound
    \/ SearchReference
    \/ SearchSkip
    \/ SearchCompare
    \/ SearchError
    \/ SearchReturn

SpecMatch == MatchInit /\ [][MatchNext]_vars

(***************************************************************************)
(* Claims on Part 4.                                                       *)
(***************************************************************************)
\* the endpoint has answered with a result
Ranked == m_pc = "done" /\ m_response.status = 200

\* the ranked list of the response
RankedList ==
    IF m_endpoint = "find_best_match" THEN m_response.ranked_results
    ELSE m_response.search_results

\* the candidates that have features
WithFeatures == { k \in 1..Len(candidate_assets) : candidate_assets[k] # Nothing }

\* the similarity percentage of candidate k with the reference
PercentageOf(k) ==
    SimilarityPercentage(The(reference_asset), The(candidate_assets[k]))

\* candidate a is ranked before candidate b: higher percentage, or equal
\* percentage and earlier in the request
MatchedBefore(a, b) ==
    \/ PercentageOf(a) > PercentageOf(b)
    \/ PercentageOf(a) = PercentageOf(b) /\ a < b

\* C13: the ranked results of find_best_match and of semantic_search are in
\* descending order of similarity percentage, candidates of equal percentage
\* are in the order of the request, the list ranks the candidates that have
\* features (semantic_search: the first top_k of that ranking), and
\* best_match is the first entry of the ranked list, or None when no
\* candidate has features.
C13_Ranked ==
    Ranked =>
        LET ids == { RankedList[p].asset_id : p \in 1..Len(RankedList) }
        IN  /\ ids \subseteq WithFeatures
            /\ \A p \in 1..Len(RankedList) :
                   RankedList[p].similarity_percentage
                       = PercentageOf(RankedList[p].asset_id)
            /\ \A p, q \in 1..Len(RankedList) :
                   p < q => MatchedBefore(RankedList[p].asset_id,
                                          RankedList[q].asset_id)
            /\ \A a \in ids : \A b \in WithFeatures \ ids : MatchedBefore(a, b)
            /\ m_endpoint = "find_best_match" =>
                   /\ ids = WithFeatures
                   /\ Len(RankedList) = Cardinality(WithFeatures)
                   /\ m_response.best_match =
                          IF WithFeatures = {} THEN Nothing
                          ELSE Just(RankedList[1])
            /\ m_endpoint = "semantic_search" =>
                   Len(RankedList) = IF Cardinality(WithFeatures) < top_k
                                     THEN Cardinality(WithFeatures) ELSE top_k

\* find_best_match ranked three candidates whose request order was not the
\* ranking: the second and third tie at the top and keep their order, the
\* first comes last, and best_match is the second
C13_Witness ==
    /\ Ranked
    /\ m_endpoint = "find_best_match"
    /\ Len(m_response.ranked_results) = 3
    /\ m_response.ranked_results[1].asset_id = 2
    /\ m_response.ranked_results[2].asset_id = 3
    /\ m_response.ranked_results[3].asset_id = 1
    /\ PercentageOf(2) = PercentageOf(3)
    /\ PercentageOf(1) < PercentageOf(2)
    /\ m_response.best_match = Just(m_response.ranked_results[1])

\* the candidates with features whose length is not the reference's
Mismatched ==
    { k \in WithFeatures :
        Len(The(candidate_assets[k])) # Len(The(reference_asset)) }

\* C15: calculate_similarity gives no result for two vectors of different
\* lengths: no entry is ever computed for a candidate whose vector differs in
\* length from the reference, the loop never gets past such a candidate, and
\* a request that holds one ends in an error, not in a ranked answer.
C15_DimensionMismatch ==
    reference_asset # Nothing =>
        /\ \A p \in 1..Len(candidate_results) :
               candidate_results[p].asset_id \notin Mismatched
        /\ \A k \in 1..m_k : k \notin Mismatched
        /\ (m_pc = "done" /\ Mismatched # {}) => m_response.status = 500

\* a request ended in an error on a candidate of length 1 against a reference
\* of length 2, after a candidate of the right length had been compared
C15_Witness ==
    /\ m_pc = "done"
    /\ m_response.status = 500
    /\ reference_asset # Nothing
    /\ Len(The(reference_asset)) = 2
    /\ Len(candidate_results) = 1
    /\ m_k + 1 \in Mismatched
    /\ Len(The(candidate_assets[m_k + 1])) = 1

(***************************************************************************)
(* Claim on the similarity matrix of Part 1.                               *)
(***************************************************************************)
\* C14: the similarity matrix of any list of vectors of equal length, the
\* zero vector included, is symmetric and every entry of its diagonal is 100.
C14_SymmetricDiagonal100 ==
    similarity_matrix # << >> =>
        /\ \A r, c \in 1..GN : similarity_matrix[r][c] = similarity_matrix[c][r]
        /\ \A r \in 1..GN : similarity_matrix[r][r] = 100

\* the part of C14 that the matrix does have: it is symmetric, and the
\* diagonal entry of every vector other than the zero vector is 100
C14_SymmetricNonZeroDiagonal ==
    similarity_matrix # << >> =>
        /\ \A r, c \in 1..GN : similarity_matrix[r][c] = similarity_matrix[c][r]
        /\ \A r \in 1..GN :
               Dot(assets_with_features[r], assets_with_features[r]) # 0
                   => similarity_matrix[r][r] = 100

(***************************************************************************)
(* Part 5: AnomalyDetector, app/routers/analytics.py :: anomaly_detection  *)
(*         and app/core/dinov3_service.py :: detect_anomalies.             *)
(*                                                                         *)
(* Arithmetic is exact.  With N reference vectors, the model keeps N*mean  *)
(* (the column sum) and N*std of each dimension, which are integers for    *)
(* the reference lists below, and a score as the record                    *)
(*     [over_eps, num, den]  =  over_eps / (N * D * 1e-8)  +  num / den    *)
(* where D is the number of dimensions: over_eps collects the dimensions   *)
(* whose std is 0, where the divisor of line 273 is the 1e-8 alone, and    *)
(* num / den the others, where 1e-8 changes the quotient by less than one  *)
(* part in 10^8.                                                           *)
(***************************************************************************)
\* reference_asset_ids of a request, as the assets they name.  The lists with
\* two or more features have an integer N*std in every dimension.
ReferenceLists ==
    { << >>,
      << Just(<<1, 0>>) >>,
      << Nothing, Just(<<1, 0>>) >>,
      << Nothing, Nothing >>,
      << Just(<<0, 0>>), Just(<<2, 0>>) >>,
      << Just(<<0, 0>>), Nothing, Just(<<2, 0>>) >>,
      << Just(<<0, 0>>), Just(<<2, 2>>) >>,
      << Just(<<1, 0>>), Just(<<1, 0>>) >>,
      << Just(<<1, 0>>), Just(<<1, 0>>), Just(<<1, 0>>) >>,
      << Just(<<0, 0>>), Just(<<0, 0>>), Just(<<2, 2>>), Just(<<2, 2>>) >> }

\* feature vectors of the test assets
TestVectors == { <<10, 0>>, <<1, 0>>, <<0, 0>>, <<-1, 0>>, <<1, 3>> }

\* lines 99-105 and 117-126: the features of the assets that have some, in
\* request order
FeaturesOf(assets) ==
    LET have == Ascending({ k \in 1..Len(assets) : assets[k] # Nothing })
    IN  [ p \in 1..Len(have) |-> The(assets[have[p]]) ]

\* lines 123-126: test_info, the asset behind each entry of test_features
InfoOf(assets) == Ascending({ k \in 1..Len(assets) : assets[k] # Nothing })

\* line 107 rejecting only an empty reference set
TooFewReferencesEmptyOnly(features) == Len(features) < 1

\* line 107: len(reference_features) < 2
TooFewReferences(features) == Len(features) < 2

RECURSIVE SumUpTo(_, _, _)
SumUpTo(rows, d, k) == IF k = 0 THEN 0 ELSE SumUpTo(rows, d, k - 1) + rows[k][d]

\* line 266: N * ref_mean[d], the sum of column d
ColumnSum(rows, d) == SumUpTo(rows, d, Len(rows))

RECURSIVE SumSqUpTo(_, _, _)
SumSqUpTo(rows, d, k) ==
    IF k = 0 THEN 0 ELSE SumSqUpTo(rows, d, k - 1) + rows[k][d] * rows[k][d]

\* line 267: N * ref_std[d]; np.std is the population standard deviation,
\* std^2 = mean(x^2) - mean(x)^2
ScaledStd(rows, d) ==
    FloorSqrt(Len(rows) * SumSqUpTo(rows, d, Len(rows))
                  - ColumnSum(rows, d) * ColumnSum(rows, d))

\* line 273: N * |test_feat[d] - ref_mean[d]|
ScaledDeviation(rows, test_feat, d) ==
    Abs(Len(rows) * test_feat[d] - ColumnSum(rows, d))

\* line 273: the sum of the z-scores of dimensions 1..k
RECURSIVE ZScoreSum(_, _, _)
ZScoreSum(rows, test_feat, k) ==
    IF k = 0 THEN [over_eps |-> 0, num |-> 0, den |-> 1]
    ELSE LET acc == ZScoreSum(rows, test_feat, k - 1)
             n == ScaledDeviation(rows, test_feat, k)
             s == ScaledStd(rows, k)
         IN  IF s = 0
             THEN [acc EXCEPT !.over_eps = acc.over_eps + n]
             ELSE [over_eps |-> acc.over_eps,
                   num |-> acc.num * s + n * acc.den,
                   den |-> acc.den * s]

\* line 274: anomaly_score = np.mean(z_scores)
AnomalyScore(rows, test_feat) ==
    LET z == ZScoreSum(rows, test_feat, Len(test_feat))
    IN  [over_eps |-> z.over_eps, num |-> z.num, den |-> z.den * Len(test_feat)]

\* line 277: cosine_similarity([test_feat], [ref_mean]), as the floor of the
\* percentage (cos + 1) * 50; the cosine with the mean is the cosine with
\* the column sums
CentroidSimilarity(rows, test_feat) ==
    SimilarityPercentage(test_feat,
        [d \in 1..Len(test_feat) |-> ColumnSum(rows, d)])

\* line 279 without the centroid test
IsAnomalyScoreOnly(score, centroid) ==
    score.over_eps > 0 \/ score.num > 2 * score.den

\* line 279: anomaly_score > 2.0 or centroid_similarity < 0.5.  A score with
\* over_eps > 0 is at least 1e8 / (N * D); cos < 0.5 is percentage < 75.
IsAnomaly(score, centroid) ==
    \/ score.over_eps > 0
    \/ score.num > 2 * score.den
    \/ centroid < 75

\* line 286: min(anomaly_score / 3.0, 1.0), as a fraction
Confidence(score) ==
    IF score.over_eps > 0 \/ score.num >= 3 * score.den
    THEN [num |-> 1, den |-> 1]
    ELSE [num |-> score.num, den |-> 3 * score.den]

\* lines 272-287: the verdict on test vector i
Verdict(rows, test_feat, i) ==
    LET anomaly_score == AnomalyScore(rows, test_feat)
        centroid_similarity == CentroidSimilarity(rows, test_feat)
    IN  [index |-> i,
         anomaly_score |-> anomaly_score,
         centroid_similarity |-> centroid_similarity,
         is_anomaly |-> IsAnomaly(anomaly_score, centroid_similarity),
         confidence |-> Confidence(anomaly_score)]

\* the components other than anomaly_detection
AnomalyRest == << gvars, svars, rvars, mvars, cvars, bvars, kvars, evars, uvars, xvars, lvars >>
AnomalyOthersIdle == GroupIdle /\ SegIdle /\ RankIdle /\ MatchIdle /\ ClusterIdle /\ BatchIdle /\ ConfigIdle /\ EnforceIdle /\ UploadIdle /\ ExtractIdle /\ LocatorIdle

AnomalyInit ==
    /\ a_pc = "request"
    /\ reference_assets \in ReferenceLists
    /\ test_assets \in SeqsOf({ Nothing } \cup { Just(v) : v \in TestVectors }, 0, MaxN)
    /\ reference_features = << >>
    /\ test_features = << >>
    /\ test_info = << >>
    /\ anomaly_results = << >>
    /\ a_response = << >>
    /\ AnomalyOthersIdle

\* lines 95-105: the loop over request.reference_asset_ids
LoadReferences ==
    /\ a_pc = "request"
    /\ reference_features' = FeaturesOf(reference_assets)
    /\ a_pc' = "references"
    /\ UNCHANGED << AnomalyRest, reference_assets, test_assets, test_features,
                    test_info, anomaly_results, a_response >>

\* lines 107-111: fewer than 2 reference assets with features -> HTTP 400
RejectReferences ==
    /\ a_pc = "references"
    /\ TooFewReferences(reference_features)
    /\ a_response' = [status |-> 400,
                      detail |-> "At least 2 reference assets with features required"]
    /\ a_pc' = "done"
    /\ UNCHANGED << AnomalyRest, reference_assets, test_assets,
                    reference_features, test_features, test_info,
                    anomaly_results >>

\* lines 113-126: the loop over request.test_asset_ids
LoadTests ==
    /\ a_pc = "references"
    /\ ~TooFewReferences(reference_features)
    /\ test_features' = FeaturesOf(test_assets)
    /\ test_info' = InfoOf(test_assets)
    /\ a_pc' = "tests"
    /\ UNCHANGED << AnomalyRest, reference_assets, test_assets,
                    reference_features, anomaly_results, a_response >>

\* lines 128-132: no test asset with features -> HTTP 400
RejectTests ==
    /\ a_pc = "tests"
    /\ test_features = << >>
    /\ a_response' = [status |-> 400,
                      detail |-> "No test assets with features found"]
    /\ a_pc' = "done"
    /\ UNCHANGED << AnomalyRest, reference_assets, test_assets,
                    reference_features, test_features, test_info,
                    anomaly_results >>

\* dinov3_service.py lines 271-287: one pass of the loop of detect_anomalies,
\* called at analytics.py line 135
DetectOne ==
    /\ a_pc = "tests"
    /\ test_features # << >>
    /\ Len(anomaly_results) < Len(test_features)
    /\ LET i == Len(anomaly_results) + 1
       IN  anomaly_results' = Append(anomaly_results,
               Verdict(reference_features, test_features[i], i))
    /\ UNCHANGED << AnomalyRest, a_pc, reference_assets, test_assets,
                    reference_features, test_features, test_info, a_response >>

\* lines 137-165: the verdicts with their asset ids, and the summary
AnomalyReturn ==
    /\ a_pc = "tests"
    /\ test_features # << >>
    /\ Len(anomaly_results) = Len(test_features)
    /\ a_response' =
           [status |-> 200,
            reference_assets |-> Len(reference_features),
            test_assets |-> Len(test_features),
            anomalies_detected |->
                Cardinality({ p \in 1..Len(anomaly_results) :
                                  anomaly_results[p].is_anomaly }),
            anomaly_results |->
                [ p \in 1..Len(anomaly_results) |->
                    [asset_id |-> test_info[anomaly_results[p].index],
                     anomaly_score |-> anomaly_results[p].anomaly_score,
                     centroid_similarity |-> anomaly_results[p].centroid_similarity,
                     is_anomaly |-> anomaly_results[p].is_anomaly,
                     confidence |-> anomaly_results[p].confidence] ]]
    /\ a_pc' = "done"
    /\ UNCHANGED << AnomalyRest, reference_assets, test_assets,
                    reference_features, test_features, test_info,
                    anomaly_results >>

AnomalyNext ==
    \/ LoadReferences
    \/ RejectReferences
    \/ LoadTests
    \/ RejectTests
    \/ DetectOne
    \/ AnomalyReturn

SpecAnomaly == AnomalyInit /\ [][AnomalyNext]_vars

(***************************************************************************)
(* Claims on Part 5.                                                       *)
(***************************************************************************)
\* the number of reference assets of the request that exist and have features
ReferencesWithFeatures ==
    Cardinality({ k \in 1..Len(reference_assets) : reference_assets[k] # Nothing })

\* C16: when fewer than 2 of the request's reference assets exist and have
\* features, anomaly_detection fails with the error that names the missing
\* reference data, and no verdict is produced for any test vector.
C16_InsufficientReference ==
    ReferencesWithFeatures < 2 =>
        /\ anomaly_results = << >>
        /\ a_pc = "done" =>
               /\ a_response.status = 400
               /\ a_response.detail
                      = "At least 2 reference assets with features required"

\* a request with exactly one reference asset with features, and a test asset
\* with features, was rejected
C16_Witness ==
    /\ a_pc = "done"
    /\ ReferencesWithFeatures = 1
    /\ \E k \in 1..Len(test_assets) : test_assets[k] # Nothing
    /\ a_response.status = 400

\* the sum f[1] + ... + f[k]
RECURSIVE SumFn(_, _)
SumFn(f, k) == IF k = 0 THEN 0 ELSE SumFn(f, k - 1) + f[k]

\* N times the mean of dimension d of the reference set
RefMeanN(d) ==
    SumFn([i \in 1..Len(reference_features) |-> reference_features[i][d]],
          Len(reference_features))

\* N times the standard deviation of dimension d of the reference set: the
\* s >= 0 with  s^2 / N^2  =  (1/N) * sum of (x - mean)^2
RefStdN(d) ==
    LET N == Len(reference_features)
        dev == [i \in 1..N |->
                   (N * reference_features[i][d] - RefMeanN(d))
                   * (N * reference_features[i][d] - RefMeanN(d))]
    IN  CHOOSE s \in 0..50 : N * s * s = SumFn(dev, N)

\* N times |test - refMean| in dimension d
RefDeviationN(test, d) ==
    LET x == Len(reference_features) * test[d] - RefMeanN(d)
    IN  IF x < 0 THEN -x ELSE x

\* The verdict v is scored as the mean over the dimensions of
\* |test - refMean| / (refStd + eps): the dimensions of std 0 in over_eps, the
\* others in num / den (12 is a common multiple of their N*std); and it is
\* flagged exactly when the score is above 2.0 or the cosine of the test
\* vector with the reference mean is below 0.5.
ScoredAndFlagged(v) ==
    LET test == test_features[v.index]
        D == Len(test)
        mean == [d \in 1..D |-> RefMeanN(d)]
        score == v.anomaly_score
        cosineBelowHalf ==
            \/ Dot(test, test) = 0 \/ Dot(mean, mean) = 0
            \/ Dot(test, mean) < 0
            \/ 4 * Dot(test, mean) * Dot(test, mean)
                   < Dot(test, test) * Dot(mean, mean)
    IN  /\ score.over_eps =
               SumFn([d \in 1..D |->
                         IF RefStdN(d) = 0 THEN RefDeviationN(test, d) ELSE 0], D)
        /\ score.num * D * 12 =
               score.den * SumFn([d \in 1..D |->
                                     IF RefStdN(d) = 0 THEN 0
                                     ELSE RefDeviationN(test, d) * (12 \div RefStdN(d))], D)
        /\ \A d \in 1..D : RefStdN(d) # 0 => 12 % RefStdN(d) = 0
        /\ v.is_anomaly <=>
               (score.over_eps > 0 \/ score.num > 2 * score.den \/ cosineBelowHalf)

\* the verdict v is on the test vector [10,0] against the reference set
\* {[0,0],[2,0]}
OnExample(v) ==
    /\ reference_features = << <<0, 0>>, <<2, 0>> >>
    /\ test_features[v.index] = <<10, 0>>

\* C17 as stated: every verdict is scored by the mean z-score and flagged
\* when score > 2.0 or centroid similarity < 0.5, and for the reference set
\* {[0,0],[2,0]} and the test vector [10,0] the score is approximately 9
\* (within 1 of 9) and the vector is flagged.
C17_Original ==
    \A p \in 1..Len(anomaly_results) :
        LET v == anomaly_results[p]
        IN  /\ ScoredAndFlagged(v)
            /\ OnExample(v) =>
                   /\ v.anomaly_score.over_eps = 0
                   /\ 8 * v.anomaly_score.den < v.anomaly_score.num
                   /\ v.anomaly_score.num < 10 * v.anomaly_score.den
                   /\ v.is_anomaly

\* C17, amended: every verdict is scored by the mean z-score and flagged when
\* score > 2.0 or centroid similarity < 0.5, and for the reference set
\* {[0,0],[2,0]} and the test vector [10,0] the score is 4.5, the mean of the
\* z-scores 9 and 0, and the vector is flagged.
C17_Amended ==
    \A p \in 1..Len(anomaly_results) :
        LET v == anomaly_results[p]
        IN  /\ ScoredAndFlagged(v)
            /\ OnExample(v) =>
                   /\ v.anomaly_score.over_eps = 0
                   /\ 2 * v.anomaly_score.num = 9 * v.anomaly_score.den
                   /\ v.is_anomaly

\* detect_anomalies has given its verdict on the test vector [10,0] against
\* the reference set {[0,0],[2,0]}
C17_Witness ==
    \E p \in 1..Len(anomaly_results) : OnExample(anomaly_results[p])

(***************************************************************************)
(* Part 6: FeatureClusterer, app/routers/analytics.py ::                   *)
(*         feature_clustering and app/core/dinov3_service.py ::            *)
(*         cluster_features.                                               *)
(*                                                                         *)
(* sklearn's KMeans is an input of the model: fit_predict raises when      *)
(* n_clusters is below 1 or above the number of samples; otherwise it      *)
(* yields one label in 0..n_clusters-1 per sample, equal samples get the   *)
(* same label (a label is the nearest centre), and the number of labels    *)
(* in use is n_clusters, or the number of distinct samples when there are  *)
(* fewer of those.  Which such labelling it yields is left open.  The      *)
(* inertia figures are floating-point norms and are not modelled.          *)
(***************************************************************************)
\* largest request.n_clusters
MaxClusters == 3

\* feature vectors of the assets to cluster
ClusterVectors == { <<0, 0>>, <<1, 0>>, <<5, 5>> }

\* line 297: min(max(len(features_list) // 10, 2), 10)
DefaultClusters(n) ==
    LET tenth == n \div 10
        atLeast2 == IF tenth > 2 THEN tenth ELSE 2
    IN  IF atLeast2 < 10 THEN atLeast2 ELSE 10

\* lines 295-297: the n_clusters that KMeans is given
ResolvedClusters(requested, n) ==
    IF requested = NoNumber THEN DefaultClusters(n) ELSE Val(requested)

\* lines 299-300: KMeans(n_clusters=k).fit_predict raises
FitRaises(features, k) == k < 1 \/ k > Len(features)

\* lines 299-300: the labellings fit_predict can yield
Labellings(features, k) ==
    LET distinct == Cardinality(SetOf(features))
        used == IF distinct < k THEN distinct ELSE k
    IN  { labels \in [1..Len(features) -> 0..(k - 1)] :
            /\ \A p, q \in 1..Len(features) :
                   features[p] = features[q] => labels[p] = labels[q]
            /\ Cardinality({ labels[p] : p \in 1..Len(features) }) = used }

\* lines 305-306: the entries of the cluster with label i
ClusterMask(labels, i) == { p \in 1..Len(labels) : labels[p] = i }

\* line 308 reporting only the clusters of two or more entries
ReportedMoreThanOne(labels, i) == Cardinality(ClusterMask(labels, i)) > 1

\* line 308: len(cluster_features) > 0
Reported(labels, i) == Cardinality(ClusterMask(labels, i)) > 0

\* lines 309-317: the statistics of cluster i; the centroid is kept as the
\* column sums of its entries, size times the mean
ClusterStat(features, labels, i) ==
    LET members == Ascending(ClusterMask(labels, i))
        rows == [ p \in 1..Len(members) |-> features[members[p]] ]
    IN  [cluster_id |-> i,
         size |-> Cardinality(ClusterMask(labels, i)),
         centroid_sum |-> [ d \in 1..Len(features[1]) |-> ColumnSum(rows, d) ]]

\* the components other than feature_clustering
ClusterRest == << gvars, svars, rvars, mvars, avars, bvars, kvars, evars, uvars, xvars, lvars >>
ClusterOthersIdle == GroupIdle /\ SegIdle /\ RankIdle /\ MatchIdle /\ AnomalyIdle /\ BatchIdle /\ ConfigIdle /\ EnforceIdle /\ UploadIdle /\ ExtractIdle /\ LocatorIdle

ClusterInit ==
    /\ c_pc = "request"
    /\ cluster_assets \in
           SeqsOf({ Nothing } \cup { Just(v) : v \in ClusterVectors }, 0, MaxN)
    /\ requested_clusters \in { NoNumber } \cup { Num(k) : k \in 0..MaxClusters }
    /\ c_features_list = << >>
    /\ c_asset_mapping = << >>
    /\ n_clusters = 0
    /\ cluster_labels = << >>
    /\ c_i = 0
    /\ cluster_stats = << >>
    /\ c_response = << >>
    /\ ClusterOthersIdle

\* analytics.py lines 182-195: the loop over request.asset_ids
ClusterLoad ==
    /\ c_pc = "request"
    /\ c_features_list' = FeaturesOf(cluster_assets)
    /\ c_asset_mapping' = InfoOf(cluster_assets)
    /\ c_pc' = "loaded"
    /\ UNCHANGED << ClusterRest, cluster_assets, requested_clusters, n_clusters,
                    cluster_labels, c_i, cluster_stats, c_response >>

\* analytics.py lines 197-201: fewer than 2 assets with features -> HTTP 400
ClusterReject ==
    /\ c_pc = "loaded"
    /\ Len(c_features_list) < 2
    /\ c_response' = [status |-> 400]
    /\ c_pc' = "done"
    /\ UNCHANGED << ClusterRest, cluster_assets, requested_clusters,
                    c_features_list, c_asset_mapping, n_clusters,
                    cluster_labels, c_i, cluster_stats >>

\* dinov3_service.py lines 295-300 and analytics.py lines 246-248: KMeans
\* raises, the handler answers 500
ClusterFitError ==
    /\ c_pc = "loaded"
    /\ Len(c_features_list) >= 2
    /\ n_clusters' = ResolvedClusters(requested_clusters, Len(c_features_list))
    /\ FitRaises(c_features_list, n_clusters')
    /\ c_response' = [status |-> 500]
    /\ c_pc' = "done"
    /\ UNCHANGED << ClusterRest, cluster_assets, requested_clusters,
                    c_features_list, c_asset_mapping, cluster_labels, c_i,
                    cluster_stats >>

\* dinov3_service.py lines 293-303: n_clusters, and the labels of fit_predict
ClusterFit ==
    /\ c_pc = "loaded"
    /\ Len(c_features_list) >= 2
    /\ n_clusters' = ResolvedClusters(requested_clusters, Len(c_features_list))
    /\ ~FitRaises(c_features_list, n_clusters')
    /\ cluster_labels' \in Labellings(c_features_list, n_clusters')
    /\ c_i' = 0
    /\ c_pc' = "stats"
    /\ UNCHANGED << ClusterRest, cluster_assets, requested_clusters,
                    c_features_list, c_asset_mapping, cluster_stats,
                    c_response >>

\* dinov3_service.py lines 304-317: a pass of `for i in range(n_clusters)`
\* over a cluster that has entries
StatAppend ==
    /\ c_pc = "stats"
    /\ c_i < n_clusters
    /\ Reported(cluster_labels, c_i)
    /\ cluster_stats' = Append(cluster_stats,
           ClusterStat(c_features_list, cluster_labels, c_i))
    /\ c_i' = c_i + 1
    /\ UNCHANGED << ClusterRest, c_pc, cluster_assets, requested_clusters,
                    c_features_list, c_asset_mapping, n_clusters,
                    cluster_labels, c_response >>

\* dinov3_service.py lines 304-308: a pass over a cluster without entries
StatSkip ==
    /\ c_pc = "stats"
    /\ c_i < n_clusters
    /\ ~Reported(cluster_labels, c_i)
    /\ c_i' = c_i + 1
    /\ UNCHANGED << ClusterRest, c_pc, cluster_assets, requested_clusters,
                    c_features_list, c_asset_mapping, n_clusters,
                    cluster_labels, cluster_stats, c_response >>

\* dinov3_service.py lines 319-324 and analytics.py lines 209-242: the
\* assets of each label, and one entry of `clusters` per cluster statistic
ClusterReturn ==
    /\ c_pc = "stats"
    /\ c_i = n_clusters
    /\ c_response' =
           [status |-> 200,
            assets_clustered |-> Len(c_features_list),
            n_clusters |-> n_clusters,
            cluster_labels |-> cluster_labels,
            clusters |->
                [ p \in 1..Len(cluster_stats) |->
                    [cluster_id |-> cluster_stats[p].cluster_id,
                     size |-> cluster_stats[p].size,
                     assets |->
                         LET members == Ascending(ClusterMask(cluster_labels,
                                            cluster_stats[p].cluster_id))
                         IN  [ q \in 1..Len(members) |->
                                 c_asset_mapping[members[q]] ]] ]]
    /\ c_pc' = "done"
    /\ UNCHANGED << ClusterRest, cluster_assets, requested_clusters,
                    c_features_list, c_asset_mapping, n_clusters,
                    cluster_labels, c_i, cluster_stats >>

ClusterNext ==
    \/ ClusterLoad
    \/ ClusterReject
    \/ ClusterFitError
    \/ ClusterFit
    \/ StatAppend
    \/ StatSkip
    \/ ClusterReturn

SpecCluster == ClusterInit /\ [][ClusterNext]_vars

(***************************************************************************)
(* Claims on Part 6.                                                       *)
(***************************************************************************)
\* the assets of the request that exist and have features
ClusterInputs == { k \in 1..Len(cluster_assets) : cluster_assets[k] # Nothing }

\* the k of the request: request.n_clusters, or the default
RequestedK ==
    ResolvedClusters(requested_clusters, Cardinality(ClusterInputs))

\* C18: for N >= 2 input vectors, duplicates included, and a requested k
\* (taken here within 1..N), cluster returns exactly k ClusterAssignments:
\* cluster_stats has k entries, one for each label 0..k-1.
C18_ExactlyK ==
    (/\ c_pc = "done"
     /\ Cardinality(ClusterInputs) >= 2
     /\ RequestedK >= 1
     /\ RequestedK <= Cardinality(ClusterInputs))
        => /\ c_response.status = 200
           /\ Len(cluster_stats) = RequestedK
           /\ { cluster_stats[p].cluster_id : p \in 1..Len(cluster_stats) }
                  = 0..(RequestedK - 1)
           /\ Len(c_response.clusters) = RequestedK

\* C19: cluster partitions its inputs: there is exactly one label per input
\* vector, every label is the id of exactly one reported ClusterAssignment,
\* each assignment's size is the number of inputs that carry its label, the
\* sizes sum to N, and the endpoint lists under each cluster exactly the
\* assets that carry its label.
C19_LabelsPartition ==
    (c_pc = "done" /\ c_response.status = 200) =>
        LET N == Cardinality(ClusterInputs)
            labels == c_response.cluster_labels
            clusters == c_response.clusters
        IN  /\ Len(labels) = N
            /\ \A p \in 1..N :
                   Cardinality({ q \in 1..Len(clusters) :
                                     clusters[q].cluster_id = labels[p] }) = 1
            /\ \A q \in 1..Len(clusters) :
                   /\ clusters[q].size =
                          Cardinality({ p \in 1..N : labels[p] = clusters[q].cluster_id })
                   /\ clusters[q].size = Len(clusters[q].assets)
                   /\ SetOf(clusters[q].assets) =
                          { c_asset_mapping[p] : p \in
                              { r \in 1..N : labels[r] = clusters[q].cluster_id } }
            /\ SumFn([ q \in 1..Len(clusters) |-> clusters[q].size ],
                     Len(clusters)) = N
            /\ \A k \in ClusterInputs :
                   Cardinality({ q \in 1..Len(clusters) :
                                     k \in SetOf(clusters[q].assets) }) = 1

\* three assets with three different feature vectors were clustered into a
\* cluster of two and a cluster of one
C19_Witness ==
    /\ c_pc = "done"
    /\ c_response.status = 200
    /\ Cardinality(ClusterInputs) = 3
    /\ Cardinality(SetOf(c_features_list)) = 3
    /\ Len(c_response.clusters) = 2
    /\ { c_response.clusters[q].size : q \in 1..2 } = { 1, 2 }

(***************************************************************************)
(* Part 7: the batch size of the callers of calculate_similarity_matrix,   *)
(*         app/routers/batch_processing.py :: batch_similarity and         *)
(*         app/routers/character_analysis.py :: group_by_character.        *)
(*                                                                         *)
(* Only the sizes are kept here: how many asset ids the request holds, how *)
(* many of them have features, and how large a matrix is computed.  What   *)
(* group_by_character does with the matrix is Part 1.                      *)
(***************************************************************************)
\* settings.MAX_BATCH_SIZE, app/core/config.py line 44
MAX_BATCH_SIZE == 100

\* batch_processing.py line 30: len(request.asset_ids) > settings.MAX_BATCH_SIZE
TooLarge(n) == n > MAX_BATCH_SIZE

\* the components other than the two matrix callers
BatchRest == << gvars, svars, rvars, mvars, avars, cvars, kvars, evars, uvars, xvars, lvars >>
BatchOthersIdle == GroupIdle /\ SegIdle /\ RankIdle /\ MatchIdle /\ AnomalyIdle /\ ClusterIdle /\ ConfigIdle /\ EnforceIdle /\ UploadIdle /\ ExtractIdle /\ LocatorIdle

BatchInit ==
    /\ b_pc = "request"
    /\ b_endpoint \in { "batch_similarity", "group_by_character" }
    /\ asset_count \in 0..(MAX_BATCH_SIZE + 1)
    /\ featured_count \in { n \in { 0, 1, 2, asset_count } : n <= asset_count }
    /\ loaded_features = 0
    /\ matrix_rows = 0
    /\ b_response = << >>
    /\ BatchOthersIdle

\* batch_processing.py lines 29-34: too many asset ids -> HTTP 400
BatchTooLarge ==
    /\ b_pc = "request" /\ b_endpoint = "batch_similarity"
    /\ TooLarge(asset_count)
    /\ b_response' = [status |-> 400, detail |-> "Batch size too large"]
    /\ b_pc' = "done"
    /\ UNCHANGED << BatchRest, b_endpoint, asset_count, featured_count,
                    loaded_features, matrix_rows >>

\* batch_processing.py lines 36-49: the loop over request.asset_ids
BatchLoad ==
    /\ b_pc = "request" /\ b_endpoint = "batch_similarity"
    /\ ~TooLarge(asset_count)
    /\ loaded_features' = featured_count
    /\ b_pc' = "loaded"
    /\ UNCHANGED << BatchRest, b_endpoint, asset_count, featured_count,
                    matrix_rows, b_response >>

\* batch_processing.py lines 51-55: fewer than 2 assets with features -> 400
BatchReject ==
    /\ b_pc = "loaded" /\ b_endpoint = "batch_similarity"
    /\ loaded_features < 2
    /\ b_response' = [status |-> 400,
                      detail |-> "At least 2 assets with extracted features required"]
    /\ b_pc' = "done"
    /\ UNCHANGED << BatchRest, b_endpoint, asset_count, featured_count,
                    loaded_features, matrix_rows >>

\* batch_processing.py lines 57-87: the matrix is computed and returned
BatchMatrix ==
    /\ b_pc = "loaded" /\ b_endpoint = "batch_similarity"
    /\ loaded_features >= 2
    /\ matrix_rows' = loaded_features
    /\ b_response' = [status |-> 200, detail |-> "",
                      assets_processed |-> loaded_features]
    /\ b_pc' = "done"
    /\ UNCHANGED << BatchRest, b_endpoint, asset_count, featured_count,
                    loaded_features >>

\* character_analysis.py lines 152-167: the loop over request.asset_ids,
\* which no check of the request's size precedes
CharacterLoad ==
    /\ b_pc = "request" /\ b_endpoint = "group_by_character"
    /\ loaded_features' = featured_count
    /\ b_pc' = "loaded"
    /\ UNCHANGED << BatchRest, b_endpoint, asset_count, featured_count,
                    matrix_rows, b_response >>

\* character_analysis.py lines 169-173: fewer than 2 assets with features
CharacterReject ==
    /\ b_pc = "loaded" /\ b_endpoint = "group_by_character"
    /\ loaded_features < 2
    /\ b_response' = [status |-> 400,
                      detail |-> "At least 2 assets with features required for grouping"]
    /\ b_pc' = "done"
    /\ UNCHANGED << BatchRest, b_endpoint, asset_count, featured_count,
                    loaded_features, matrix_rows >>

\* character_analysis.py lines 175-224: the matrix is computed, the assets
\* are grouped and the groups returned
CharacterMatrix ==
    /\ b_pc = "loaded" /\ b_endpoint = "group_by_character"
    /\ loaded_features >= 2
    /\ matrix_rows' = loaded_features
    /\ b_response' = [status |-> 200, detail |-> "",
                      assets_processed |-> loaded_features]
    /\ b_pc' = "done"
    /\ UNCHANGED << BatchRest, b_endpoint, asset_count, featured_count,
                    loaded_features >>

BatchNext ==
    \/ BatchTooLarge
    \/ BatchLoad
    \/ BatchReject
    \/ BatchMatrix
    \/ CharacterLoad
    \/ CharacterReject
    \/ CharacterMatrix

SpecBatch == BatchInit /\ [][BatchNext]_vars

(***************************************************************************)
(* Claim on Part 7.                                                        *)
(***************************************************************************)
\* the matrix callers treat a request of more than MAX_BATCH_SIZE asset ids
\* as too large: no matrix is computed for it and it ends with the
\* batch-size error
RefusedWhenTooLarge ==
    asset_count > MAX_BATCH_SIZE =>
        /\ matrix_rows = 0
        /\ b_pc = "done" =>
               /\ b_response.status = 400
               /\ b_response.detail = "Batch size too large"

\* C20: batch_similarity and group_by_character alike refuse a request with
\* more than MAX_BATCH_SIZE asset ids with the batch-size error before any
\* matrix is computed; such a request is never processed in full.
C20_BatchLimitEverywhere ==
    b_endpoint \in { "batch_similarity", "group_by_character" }
        => RefusedWhenTooLarge

\* the part of C20 that the code has: batch_similarity refuses such a request
C20_BatchSimilarityOnly ==
    b_endpoint = "batch_similarity" => RefusedWhenTooLarge

(***************************************************************************)
(* Claim on Part 3: the shots suggest_shots ranks.                         *)
(***************************************************************************)
\* the stored shots that pass the tone filter and the tag filter of the
\* request, wherever they are in the store
MatchingShots ==
    { k \in 1..Len(shot_store) :
        /\ TruthyStr(suggest_request.emotional_tone)
               => shot_store[k].emotional_tone = suggest_request.emotional_tone
        /\ Truthy(suggest_request.desired_tags)
               => HasDesiredTag(shot_store[k], The(suggest_request.desired_tags)) }

\* C30: suggest_shots ranks over all matching persisted shots: no stored shot
\* that passes the tone and tag filters and is absent from the
\* recommendations has a strictly higher relevance than a shot that is
\* returned.
C30_RanksAllMatching ==
    Suggested =>
        LET recs == r_response.recommendations
            returned == { recs[p].shot_id : p \in 1..Len(recs) }
        IN  \A a \in MatchingShots \ returned : \A b \in returned :
                RelevanceOf(a) <= RelevanceOf(b)

\* the part of C30 that the code has: the same among the shots that the
\* query returned, the first 2 * limit of the store that pass the tone filter
C30_RanksFetched ==
    Suggested =>
        LET recs == r_response.recommendations
            returned == { recs[p].shot_id : p \in 1..Len(recs) }
            fetched == SetOf(FindShots(shot_store, suggest_request))
        IN  \A a \in (MatchingShots \cap fetched) \ returned : \A b \in returned :
                RelevanceOf(a) <= RelevanceOf(b)

(***************************************************************************)
(* Claim on Part 2: the temporary file of analyze_video_shots.             *)
(***************************************************************************)
\* analyze_video_shots has returned or raised
SegFinished == s_pc \in { "done", "http400", "http404", "http500" }

\* C25 (its first half; the claim is this and the absence of interference
\* between concurrent analyses of one asset): on every exit path of
\* analyze_video_shots, once the operation has returned the temporary file
\* /tmp/<asset id>.mp4 has been removed and the opened video closed.
C25_TempFileRemovedOnEveryExit ==
    SegFinished => (temp_file = FALSE /\ video_open = FALSE)

\* the part of C25 that the code has: the successful return closes the video
\* and removes the temporary file
C25_SuccessRemovesTempFile ==
    s_pc = "done" => (temp_file = FALSE /\ video_open = FALSE)


(***************************************************************************)
(* Part 8: the threshold configuration of the process,                     *)
(*         app/routers/configuration.py, and the endpoint the similarity   *)
(*         threshold is documented for,                                    *)
(*         app/routers/character_analysis.py :: character_matching.        *)
(*                                                                         *)
(* The process serves one request after another; each action is one        *)
(* request served from its arrival to its response.  The quality threshold *)
(* is kept in hundredths (0.7 is 70), the similarity threshold in percent. *)
(***************************************************************************)
\* settings.DEFAULT_QUALITY_THRESHOLD = 0.7, in hundredths
DEFAULT_QUALITY_THRESHOLD == 70

\* settings.DEFAULT_SIMILARITY_THRESHOLD = 75.0
DEFAULT_SIMILARITY_THRESHOLD == 75

\* settings.MAX_FILE_SIZE_MB
MAX_FILE_SIZE_MB == 50

\* the most test assets of one character_matching request
MaxTests == 2

\* request.threshold of PUT /config/quality-threshold, in hundredths
QualityThresholdRequests == { -10, 30, 100, 110 }

\* request.threshold of PUT /config/similarity-threshold, in percent
SimilarityThresholdRequests == { -1, 50, 90, 101 }

\* features of the reference asset of a character_matching request
CharacterReferences == { <<1, 0>>, <<1, 1>> }

\* a test asset of a character_matching request: Nothing when it is missing
\* or has no features, otherwise Just(its features); the last has features
\* of another dimension
TestAssets == { Nothing, Just(<<1, 1>>), Just(<<-1, 0>>), Just(<<1>>) }

\* configuration.py line 32: 0.0 <= request.threshold <= 1.0
QualityInRange(threshold) == 0 <= threshold /\ threshold <= 100

\* configuration.py line 65: 0.0 <= request.threshold <= 100.0
SimilarityInRange(threshold) == 0 <= threshold /\ threshold <= 100

\* character_analysis.py line 62: same_character = similarity_score >= 75.0
SameCharacter(similarity_score) == similarity_score >= 75

\* character_analysis.py lines 65-82
ConfidenceLevel(similarity_score) ==
    IF similarity_score >= 95 THEN "extremely_high"
    ELSE IF similarity_score >= 85 THEN "very_high"
    ELSE IF similarity_score >= 75 THEN "high"
    ELSE IF similarity_score >= 65 THEN "medium"
    ELSE IF similarity_score >= 50 THEN "low"
    ELSE "very_low"

\* character_analysis.py lines 45-115, the body of the loop for the test
\* asset at position k: the entry appended to consistency_results.  An asset
\* that is missing or has no features gets an error entry (lines 49-56), and
\* so does one whose comparison raises (lines 109-115); neither ends the
\* loop.  confidence_score is kept in hundredths.
ConsistencyEntry(k, ref_features, test_asset) ==
    IF test_asset = Nothing
    THEN [test_asset_id |-> k,
          error |-> "Asset not found or features not extracted",
          same_character |-> FALSE,
          confidence_score |-> 0]
    ELSE LET similarity_metrics ==
                 calculate_similarity(ref_features, The(test_asset))
         IN  IF similarity_metrics = Nothing
             THEN [test_asset_id |-> k,
                   error |-> "ValueError",
                   same_character |-> FALSE,
                   confidence_score |-> 0]
             ELSE LET similarity_score ==
                          The(similarity_metrics).similarity_percentage
                  IN  [test_asset_id |-> k,
                       same_character |-> SameCharacter(similarity_score),
                       similarity_score |-> similarity_score,
                       confidence_level |-> ConfidenceLevel(similarity_score),
                       confidence_score |-> similarity_score]

\* character_analysis.py lines 85-95: the rows handed to db.add, one for
\* each entry without an error, in request order
ConsistencyRows(results) ==
    LET row(r) == [test_asset_id |-> r.test_asset_id,
                   same_character |-> r.same_character,
                   similarity_score |-> r.similarity_score]
        valid == SelectSeq(results, LAMBDA r : "error" \notin DOMAIN r)
    IN  [ p \in 1..Len(valid) |-> row(valid[p]) ]

\* the components other than the configuration and character_matching
ConfigRest == << gvars, svars, rvars, mvars, avars, cvars, bvars, evars, uvars, xvars, lvars >>
ConfigOthersIdle == GroupIdle /\ SegIdle /\ RankIdle /\ MatchIdle /\ AnomalyIdle /\ ClusterIdle /\ BatchIdle /\ EnforceIdle /\ UploadIdle /\ ExtractIdle /\ LocatorIdle

\* configuration.py lines 18-21: the store as the module is loaded
ConfigInit ==
    /\ config_store = [quality_threshold |-> DEFAULT_QUALITY_THRESHOLD,
                       similarity_threshold |-> DEFAULT_SIMILARITY_THRESHOLD]
    /\ k_endpoint = "none"
    /\ k_threshold = NoNumber
    /\ k_reference = << >>
    /\ k_tests = << >>
    /\ character_consistency = << >>
    /\ k_response = << >>
    /\ ConfigOthersIdle

\* configuration.py lines 32-36: a quality threshold out of range -> 400
UpdateQualityReject ==
    \E threshold \in QualityThresholdRequests :
        /\ ~QualityInRange(threshold)
        /\ k_endpoint' = "update_quality_threshold"
        /\ k_threshold' = Num(threshold)
        /\ k_response' = [status |-> 400,
                          detail |-> "Quality threshold must be between 0.0 and 1.0"]
        /\ k_reference' = << >> /\ k_tests' = << >>
        /\ character_consistency' = << >>
        /\ UNCHANGED << ConfigRest, config_store >>

\* configuration.py lines 38-48: the quality threshold is stored
UpdateQuality ==
    \E threshold \in QualityThresholdRequests :
        /\ QualityInRange(threshold)
        /\ config_store' = [config_store EXCEPT !.quality_threshold = threshold]
        /\ k_endpoint' = "update_quality_threshold"
        /\ k_threshold' = Num(threshold)
        /\ k_response' = [status |-> 200,
                          quality_threshold |-> threshold,
                          previous_threshold |-> DEFAULT_QUALITY_THRESHOLD,
                          updated |-> TRUE]
        /\ k_reference' = << >> /\ k_tests' = << >>
        /\ character_consistency' = << >>
        /\ UNCHANGED ConfigRest

\* configuration.py lines 65-69: a similarity threshold out of range -> 400
UpdateSimilarityReject ==
    \E threshold \in SimilarityThresholdRequests :
        /\ ~SimilarityInRange(threshold)
        /\ k_endpoint' = "update_similarity_threshold"
        /\ k_threshold' = Num(threshold)
        /\ k_response' = [status |-> 400,
                          detail |-> "Similarity threshold must be between 0.0 and 100.0"]
        /\ k_reference' = << >> /\ k_tests' = << >>
        /\ character_consistency' = << >>
        /\ UNCHANGED << ConfigRest, config_store >>

\* configuration.py lines 71-81: the similarity threshold is stored
UpdateSimilarity ==
    \E threshold \in SimilarityThresholdRequests :
        /\ SimilarityInRange(threshold)
        /\ config_store' = [config_store EXCEPT !.similarity_threshold = threshold]
        /\ k_endpoint' = "update_similarity_threshold"
        /\ k_threshold' = Num(threshold)
        /\ k_response' = [status |-> 200,
                          similarity_threshold |-> threshold,
                          previous_threshold |-> DEFAULT_SIMILARITY_THRESHOLD,
                          updated |-> TRUE]
        /\ k_reference' = << >> /\ k_tests' = << >>
        /\ character_consistency' = << >>
        /\ UNCHANGED ConfigRest

\* configuration.py lines 89-102: GET /config
GetConfiguration ==
    /\ k_endpoint' = "get_configuration"
    /\ k_threshold' = NoNumber
    /\ k_response' = [status |-> 200,
                      quality_threshold |-> config_store.quality_threshold,
                      similarity_threshold |-> config_store.similarity_threshold,
                      max_file_size_mb |-> MAX_FILE_SIZE_MB,
                      max_batch_size |-> MAX_BATCH_SIZE]
    /\ k_reference' = << >> /\ k_tests' = << >>
    /\ character_consistency' = << >>
    /\ UNCHANGED << ConfigRest, config_store >>

\* character_analysis.py lines 34-38: the reference asset is missing or has
\* no features -> 404
CharacterMatchingNotFound ==
    \E tests \in SeqsOf(TestAssets, 0, MaxTests) :
        /\ k_endpoint' = "character_matching"
        /\ k_threshold' = NoNumber
        /\ k_reference' = Nothing
        /\ k_tests' = tests
        /\ character_consistency' = << >>
        /\ k_response' = [status |-> 404,
                          detail |-> "Reference asset not found or features not extracted"]
        /\ UNCHANGED << ConfigRest, config_store >>

\* character_analysis.py lines 41-115: consistency_results after the first
\* n rounds of the loop, each round appending the entry of its test asset
RECURSIVE ConsistencyResultsUpTo(_, _, _)
ConsistencyResultsUpTo(reference, tests, n) ==
    IF n = 0 THEN << >>
    ELSE Append(ConsistencyResultsUpTo(reference, tests, n - 1),
                ConsistencyEntry(n, reference, tests[n]))

\* character_analysis.py lines 41-115: consistency_results after the loop
ConsistencyResults(reference, tests) ==
    ConsistencyResultsUpTo(reference, tests, Len(tests))

\* character_analysis.py lines 40-135: every test asset is compared with the
\* reference, the rows are committed and the results returned
CharacterMatching ==
    \E reference \in CharacterReferences,
       tests \in SeqsOf(TestAssets, 0, MaxTests) :
        /\ k_endpoint' = "character_matching"
        /\ k_threshold' = NoNumber
        /\ k_reference' = Just(reference)
        /\ k_tests' = tests
        /\ character_consistency' = ConsistencyRows(ConsistencyResults(reference, tests))
        /\ k_response' =
               [status |-> 200,
                total_tested |-> Len(tests),
                processed_successfully |-> Len(character_consistency'),
                same_character_count |->
                    Cardinality({ p \in 1..Len(character_consistency') :
                                    character_consistency'[p].same_character }),
                consistency_results |-> ConsistencyResults(reference, tests)]
        /\ UNCHANGED << ConfigRest, config_store >>

ConfigNext ==
    \/ UpdateQualityReject
    \/ UpdateQuality
    \/ UpdateSimilarityReject
    \/ UpdateSimilarity
    \/ GetConfiguration
    \/ CharacterMatchingNotFound
    \/ CharacterMatching

SpecConfig == ConfigInit /\ [][ConfigNext]_vars


(***************************************************************************)
(* Claims on Part 8.                                                       *)
(***************************************************************************)
\* the last request was a character_matching call that returned its results
MatchingReturned ==
    k_endpoint = "character_matching" /\ k_response.status = 200

\* test asset k of the last character_matching call failed: it was missing
\* or had no features, or its comparison with the reference raised
ItemFailed(k) ==
    \/ k_tests[k] = Nothing
    \/ calculate_similarity(The(k_reference), The(k_tests[k])) = Nothing

\* C21: a multi-item operation returns no successful response when one of
\* its items had no features or its computation failed: character_matching
\* answers 200 only if every test asset had features and was compared.
C21_FailedItemAbortsOperation ==
    MatchingReturned => \A k \in 1..Len(k_tests) : ~ItemFailed(k)

\* what the code does with a failed item of character_matching: the response
\* is still 200 and holds, at the item's position, an entry with an error,
\* same_character false and no similarity score
C21_FailedItemReported ==
    MatchingReturned =>
        \A k \in 1..Len(k_tests) :
            ItemFailed(k) <=>
                /\ "error" \in DOMAIN k_response.consistency_results[k]
                /\ ~k_response.consistency_results[k].same_character

\* C22: character_matching decides same_character as similarity_percentage
\* >= T, for T the similarity threshold of the last successful
\* PUT /config/similarity-threshold (which the store holds), and GET /config
\* reports that T.
C22_MatchingUsesStoredThreshold ==
    /\ MatchingReturned =>
           \A k \in 1..Len(k_tests) :
               ~ItemFailed(k) =>
                   (k_response.consistency_results[k].same_character
                       <=> k_response.consistency_results[k].similarity_score
                               >= config_store.similarity_threshold)
    /\ k_endpoint = "get_configuration" =>
           k_response.similarity_threshold = config_store.similarity_threshold

\* the part of C22 that the code has: GET /config reports the stored
\* thresholds
C22_GetReportsStored ==
    k_endpoint = "get_configuration" =>
        /\ k_response.similarity_threshold = config_store.similarity_threshold
        /\ k_response.quality_threshold = config_store.quality_threshold

\* the store's similarity threshold is the value of the last successful
\* PUT /config/similarity-threshold: nothing else changes it
C22_StoreHoldsLastUpdate ==
    [][config_store'.similarity_threshold # config_store.similarity_threshold
          => /\ k_endpoint' = "update_similarity_threshold"
             /\ k_response'.status = 200
             /\ config_store'.similarity_threshold = Val(k_threshold')]_vars

\* the request served by the step is a threshold update
UpdateServed ==
    k_endpoint' \in { "update_quality_threshold", "update_similarity_threshold" }

\* the threshold the step's update request is about, as stored before it
StoredBefore ==
    IF k_endpoint' = "update_quality_threshold"
    THEN config_store.quality_threshold
    ELSE config_store.similarity_threshold

\* a threshold update out of range is answered 400 and leaves the store as
\* it was
RejectedLeavesStore ==
    (UpdateServed /\ k_response'.status = 400) => config_store' = config_store

\* a successful threshold update changes its own key only
OwnKeyOnly ==
    (UpdateServed /\ k_response'.status = 200) =>
        IF k_endpoint' = "update_quality_threshold"
        THEN /\ config_store'.quality_threshold = Val(k_threshold')
             /\ config_store'.similarity_threshold = config_store.similarity_threshold
        ELSE /\ config_store'.similarity_threshold = Val(k_threshold')
             /\ config_store'.quality_threshold = config_store.quality_threshold

\* the previous_threshold of a successful update is the value the store
\* held for that key immediately before
PreviousIsStoredBefore ==
    (UpdateServed /\ k_response'.status = 200) =>
        k_response'.previous_threshold = StoredBefore

\* C28: in every sequence of threshold updates, a value out of range is
\* rejected with 400 and leaves the store unchanged, a successful update
\* changes only its own key, and the previous_threshold it returns is the
\* value stored for that key immediately before the update.
C28_ThresholdHistory ==
    [][RejectedLeavesStore /\ OwnKeyOnly /\ PreviousIsStoredBefore]_vars

\* the part of C28 that the code has: rejection leaves the store unchanged
\* and a successful update changes only its own key
C28_RejectAndOwnKey ==
    [][RejectedLeavesStore /\ OwnKeyOnly]_vars

\* what the code returns as previous_threshold: the default of the settings
C28_PreviousIsDefault ==
    (k_endpoint \in { "update_quality_threshold", "update_similarity_threshold" }
        /\ k_response.status = 200) =>
        k_response.previous_threshold =
            IF k_endpoint = "update_quality_threshold"
            THEN DEFAULT_QUALITY_THRESHOLD ELSE DEFAULT_SIMILARITY_THRESHOLD


(***************************************************************************)
(* Part 9: app/routers/production_services.py :: reference_enforcement.    *)
(*                                                                         *)
(* One request: the master asset is loaded, every generated asset is       *)
(* compared with it in request order, and the verdicts are counted.        *)
(***************************************************************************)
\* the most generated assets of one request
MaxGenerated == 2

\* features of the master reference asset
MasterVectors == { <<1, 0>>, <<1, 1>> }

\* a generated asset: Nothing when it is missing or has no features,
\* otherwise Just(its features); the last has features of another dimension.
\* Against the master (1, 0) the percentages are 100, 94, 85, 0.
GeneratedAssets ==
    { Nothing, Just(<<1, 0>>), Just(<<2, 1>>), Just(<<1, 1>>), Just(<<-1, 0>>),
      Just(<<1>>) }

\* request.compliance_threshold, in percent (default 80.0)
ComplianceThresholds == { 0, 80, 95, 100 }

\* line 180: compliant = similarity_score >= request.compliance_threshold
Compliant(similarity_score, threshold) == similarity_score >= threshold

\* lines 183-194: the action recommended for a generated asset
EnforcementAction(similarity_score, threshold) ==
    IF similarity_score >= 90 THEN "approve"
    ELSE IF similarity_score >= threshold THEN "approve"
    ELSE IF similarity_score >= threshold - 10 THEN "review"
    ELSE "regenerate"

\* lines 216-223: the entries of results without an "error" key
EnforceValid(results) ==
    { k \in 1..Len(results) : "error" \notin DOMAIN results[k] }

\* lines 221-223: how many valid entries recommend the action
ActionCount(results, action) ==
    Cardinality({ k \in EnforceValid(results) : results[k].action = action })

\* the components other than reference_enforcement
EnforceRest == << gvars, svars, rvars, mvars, avars, cvars, bvars, kvars, uvars, xvars, lvars >>
EnforceOthersIdle == GroupIdle /\ SegIdle /\ RankIdle /\ MatchIdle /\ AnomalyIdle /\ ClusterIdle /\ BatchIdle /\ ConfigIdle /\ UploadIdle /\ ExtractIdle /\ LocatorIdle

\* lines 144-149: the request as it arrives
EnforceInit ==
    /\ e_pc = "request"
    /\ master_asset \in { Nothing } \cup { Just(v) : v \in MasterVectors }
    /\ generated_assets \in SeqsOf(GeneratedAssets, 0, MaxGenerated)
    /\ compliance_threshold \in ComplianceThresholds
    /\ compliance_results = << >>
    /\ e_response = << >>
    /\ EnforceOthersIdle

\* lines 153-157: the master asset is missing or has no features -> 404
EnforceNotFound ==
    /\ e_pc = "request"
    /\ master_asset = Nothing
    /\ e_response' = [status |-> 404,
                      detail |-> "Master reference asset not found or features not extracted"]
    /\ e_pc' = "done"
    /\ UNCHANGED << EnforceRest, master_asset, generated_assets,
                    compliance_threshold, compliance_results >>

\* lines 159-160: master_features is taken and the loop begins
EnforceMaster ==
    /\ e_pc = "request"
    /\ master_asset # Nothing
    /\ e_pc' = "loop"
    /\ UNCHANGED << EnforceRest, master_asset, generated_assets,
                    compliance_threshold, compliance_results, e_response >>

\* lines 165-174: the next generated asset is missing or has no features
EnforceMissing ==
    /\ e_pc = "loop"
    /\ Len(compliance_results) < Len(generated_assets)
    /\ LET k == Len(compliance_results) + 1
       IN  /\ generated_assets[k] = Nothing
           /\ compliance_results' = Append(compliance_results,
                  [generated_asset_id |-> k,
                   error |-> "Generated asset not found or features not extracted",
                   compliant |-> FALSE,
                   compliance_score |-> 0])
    /\ UNCHANGED << EnforceRest, e_pc, master_asset, generated_assets,
                    compliance_threshold, e_response >>

\* lines 176-205: the next generated asset is compared and judged
EnforceCompare ==
    /\ e_pc = "loop"
    /\ Len(compliance_results) < Len(generated_assets)
    /\ LET k == Len(compliance_results) + 1
       IN  /\ generated_assets[k] # Nothing
           /\ calculate_similarity(The(master_asset), The(generated_assets[k])) # Nothing
           /\ LET similarity_score ==
                      The(calculate_similarity(The(master_asset),
                              The(generated_assets[k]))).similarity_percentage
              IN  compliance_results' = Append(compliance_results,
                      [generated_asset_id |-> k,
                       compliant |-> Compliant(similarity_score, compliance_threshold),
                       compliance_score |-> similarity_score,
                       action |-> EnforcementAction(similarity_score,
                                                    compliance_threshold)])
    /\ UNCHANGED << EnforceRest, e_pc, master_asset, generated_assets,
                    compliance_threshold, e_response >>

\* lines 207-213: the comparison raised (features of another dimension)
EnforceError ==
    /\ e_pc = "loop"
    /\ Len(compliance_results) < Len(generated_assets)
    /\ LET k == Len(compliance_results) + 1
       IN  /\ generated_assets[k] # Nothing
           /\ calculate_similarity(The(master_asset), The(generated_assets[k])) = Nothing
           /\ compliance_results' = Append(compliance_results,
                  [generated_asset_id |-> k,
                   error |-> "ValueError",
                   compliant |-> FALSE,
                   compliance_score |-> 0])
    /\ UNCHANGED << EnforceRest, e_pc, master_asset, generated_assets,
                    compliance_threshold, e_response >>

\* lines 215-243: the statistics and the response
EnforceReturn ==
    /\ e_pc = "loop"
    /\ Len(compliance_results) = Len(generated_assets)
    /\ LET valid_results == EnforceValid(compliance_results)
       IN  e_response' =
               [status |-> 200,
                compliance_threshold |-> compliance_threshold,
                total_generated |-> Len(generated_assets),
                processed_successfully |-> Cardinality(valid_results),
                compliant_count |->
                    Cardinality({ k \in valid_results :
                                    compliance_results[k].compliant }),
                action_summary |->
                    [approve |-> ActionCount(compliance_results, "approve"),
                     review |-> ActionCount(compliance_results, "review"),
                     regenerate |-> ActionCount(compliance_results, "regenerate")],
                compliance_results |-> compliance_results]
    /\ e_pc' = "done"
    /\ UNCHANGED << EnforceRest, master_asset, generated_assets,
                    compliance_threshold, compliance_results >>

EnforceNext ==
    \/ EnforceNotFound
    \/ EnforceMaster
    \/ EnforceMissing
    \/ EnforceCompare
    \/ EnforceError
    \/ EnforceReturn

SpecEnforce == EnforceInit /\ [][EnforceNext]_vars

(***************************************************************************)
(* Claims on Part 9.                                                       *)
(***************************************************************************)
\* reference_enforcement has returned its verdicts
Enforced == e_pc = "done" /\ e_response.status = 200

\* the entries of the response that carry a verdict
Judged == EnforceValid(e_response.compliance_results)

\* C29: for every compliance_threshold in [0, 100] and every similarity
\* score, a generated asset has action "approve" if and only if it is
\* compliant, and action_summary.approve equals compliant_count.
C29_ApproveIffCompliant ==
    (Enforced /\ compliance_threshold \in 0..100) =>
        /\ \A k \in Judged :
               e_response.compliance_results[k].action = "approve"
                   <=> e_response.compliance_results[k].compliant
        /\ e_response.action_summary.approve = e_response.compliant_count

\* what the code has: a compliant asset is always approved, and an approved
\* asset is compliant or scores 90 or more; the two counts agree for a
\* threshold of at most 90
C29_CompliantIsApproved ==
    Enforced =>
        /\ \A k \in Judged :
               /\ e_response.compliance_results[k].compliant
                      => e_response.compliance_results[k].action = "approve"
               /\ e_response.compliance_results[k].action = "approve"
                      => \/ e_response.compliance_results[k].compliant
                         \/ e_response.compliance_results[k].compliance_score >= 90
        /\ compliance_threshold <= 90
               => e_response.action_summary.approve = e_response.compliant_count


(***************************************************************************)
(* Part 10: app/routers/media_management.py :: upload_media and            *)
(*          app/core/storage.py :: StorageService.upload_file.             *)
(*                                                                         *)
(* A filename is kept as the sequence of its parts between the dots:       *)
(* "test.jpg" is << "test", "jpg" >>, ".jpg" is << "", "jpg" >> and the    *)
(* empty name is << "" >>.  A content type "type/subtype" is kept as the   *)
(* record of its two halves, Nothing when the upload carries none.         *)
(***************************************************************************)
\* line 26: settings.MAX_FILE_SIZE_MB * 1024 * 1024
MaxFileBytes == MAX_FILE_SIZE_MB * 1024 * 1024

\* file.content_type of the uploads of the model
ContentTypes ==
    { Nothing,
      Just([major |-> "image", minor |-> "jpeg"]),
      Just([major |-> "image", minor |-> "png"]),
      Just([major |-> "application", minor |-> "octet-stream"]),
      Just([major |-> "binary", minor |-> "octet-stream"]),
      Just([major |-> "text", minor |-> "plain"]) }

\* file.filename of the uploads of the model: test.jpg, test.jpeg, test.png,
\* TEST.JPG, test, test.txt, test.jpg.gz, .jpg and the empty name
Filenames ==
    { << "test", "jpg" >>, << "test", "jpeg" >>, << "test", "png" >>,
      << "TEST", "JPG" >>, << "test" >>, << "test", "txt" >>,
      << "test", "jpg", "gz" >>, << "", "jpg" >>, << "" >> }

\* len(file_data) of the uploads of the model
FileSizes == { 1024, MaxFileBytes, MaxFileBytes + 1 }

\* what Image.open reads from the data (lines 80-82): Nothing when it
\* raises, otherwise Just(size and format)
ImageData ==
    { Nothing,
      Just([width |-> 640, height |-> 480, format |-> "JPEG"]),
      Just([width |-> 0, height |-> 480, format |-> "JPEG"]) }

\* str.lower() on the parts of the filenames of the model
LowerName(w) == CASE w = "JPG" -> "jpg"
                  [] w = "TEST" -> "test"
                  [] OTHER -> w

\* posixpath.splitext: the name has an extension when a dot follows a
\* character that is not a dot
HasExtension(parts) ==
    /\ Len(parts) >= 2
    /\ \E k \in 1..(Len(parts) - 1) : parts[k] # ""

\* posixpath.splitext, the extension without its dot: Nothing when there is
\* none
Extension(parts) ==
    IF HasExtension(parts) THEN Just(parts[Len(parts)]) ELSE Nothing

\* posixpath.splitext, the name without its extension
Base(parts) ==
    IF HasExtension(parts) THEN SubSeq(parts, 1, Len(parts) - 1) ELSE parts

\* mimetypes.encodings_map: the extensions that name a compression
Encodings == { "gz", "bz2", "xz", "Z", "br" }

\* mimetypes.types_map on the extensions of the model
TypesMap(ext) ==
    CASE ext \in { "jpg", "jpeg" } -> Just([major |-> "image", minor |-> "jpeg"])
      [] ext = "png" -> Just([major |-> "image", minor |-> "png"])
      [] ext = "txt" -> Just([major |-> "text", minor |-> "plain"])
      [] OTHER -> Nothing

\* mimetypes.guess_type(filename)[0] (lines 42 and 71): the extension is
\* split off; an extension that names a compression is dropped and the next
\* one taken; the type is looked up for the extension as written and then
\* for its lower case
GuessType(parts) ==
    LET outer == Extension(parts)
        inner == IF outer # Nothing /\ The(outer) \in Encodings
                 THEN Extension(Base(parts)) ELSE outer
    IN  IF inner = Nothing THEN Nothing
        ELSE IF TypesMap(The(inner)) # Nothing THEN TypesMap(The(inner))
        ELSE TypesMap(LowerName(The(inner)))

\* line 36: content_type and content_type.startswith('image/')
ImageContentType(content_type) ==
    content_type # Nothing /\ The(content_type).major = "image"

\* line 47: generic_types
GenericTypes ==
    { Just([major |-> "application", minor |-> "octet-stream"]),
      Just([major |-> "binary", minor |-> "octet-stream"]) }

\* line 50: image_extensions, without their dots
ImageExtensions == { "jpg", "jpeg", "png", "gif", "bmp", "webp", "tiff", "svg" }

\* lines 51-52: filename.lower() ends with one of the image extensions
EndsWithImageExtension(parts) ==
    Len(parts) >= 2 /\ LowerName(parts[Len(parts)]) \in ImageExtensions

\* lines 33-55
is_valid_image_content_type(content_type, filename) ==
    \/ ImageContentType(content_type)
    \/ /\ filename # << "" >>
       /\ ImageContentType(GuessType(filename))
    \/ /\ content_type \in GenericTypes
       /\ filename # << "" >>
       /\ EndsWithImageExtension(filename)

\* line 26: len(file_data) > settings.MAX_FILE_SIZE_MB * 1024 * 1024
FileTooLarge(size) == size > MaxFileBytes

\* lines 67-72: the content type handed to the storage service
ContentTypeForStorage(content_type, filename) ==
    IF content_type # Nothing THEN content_type
    ELSE IF GuessType(filename) # Nothing THEN GuessType(filename)
    ELSE Just([major |-> "application", minor |-> "octet-stream"])

\* storage.py line 49: Path(filename).suffix without its dot, "" when the
\* name has none
Suffix(parts) ==
    IF HasExtension(parts) THEN parts[Len(parts)] ELSE ""

\* line 85: not width or not height or width <= 0 or height <= 0
InvalidDimensions(image) == image.width <= 0 \/ image.height <= 0

\* the components other than upload_media
UploadRest == << gvars, svars, rvars, mvars, avars, cvars, bvars, kvars, evars, xvars, lvars >>
UploadOthersIdle == GroupIdle /\ SegIdle /\ RankIdle /\ MatchIdle /\ AnomalyIdle /\ ClusterIdle /\ BatchIdle /\ ConfigIdle /\ EnforceIdle /\ ExtractIdle /\ LocatorIdle

\* lines 17-25: the upload as it arrives, its data read
UploadInit ==
    /\ u_pc = "request"
    /\ u_file \in [content_type : ContentTypes, filename : Filenames,
                   size : FileSizes, image : ImageData]
    /\ stored_objects = << >>
    /\ media_assets = << >>
    /\ u_response = << >>
    /\ UploadOthersIdle

\* lines 26-30: the data is larger than the limit -> 413
UploadTooLarge ==
    /\ u_pc = "request"
    /\ FileTooLarge(u_file.size)
    /\ u_response' = [status |-> 413, detail |-> "File too large"]
    /\ u_pc' = "done"
    /\ UNCHANGED << UploadRest, u_file, stored_objects, media_assets >>

\* lines 57-61: neither content type nor filename says image -> 400
UploadNotImage ==
    /\ u_pc = "request"
    /\ ~FileTooLarge(u_file.size)
    /\ ~is_valid_image_content_type(u_file.content_type, u_file.filename)
    /\ u_response' = [status |-> 400, detail |-> "Only image files are supported"]
    /\ u_pc' = "done"
    /\ UNCHANGED << UploadRest, u_file, stored_objects, media_assets >>

\* lines 64-76 and storage.py lines 47-74: the data is put into the bucket
UploadStore ==
    /\ u_pc = "request"
    /\ ~FileTooLarge(u_file.size)
    /\ is_valid_image_content_type(u_file.content_type, u_file.filename)
    /\ stored_objects' = Append(stored_objects,
           [suffix |-> Suffix(u_file.filename),
            content_type |-> ContentTypeForStorage(u_file.content_type,
                                                   u_file.filename),
            file_size |-> u_file.size])
    /\ u_pc' = "stored"
    /\ UNCHANGED << UploadRest, u_file, media_assets, u_response >>

\* lines 64-76, storage.py lines 76-78 and lines 135-137: the storage
\* service raises, nothing is put into the bucket -> 500
UploadStoreFail ==
    /\ u_pc = "request"
    /\ ~FileTooLarge(u_file.size)
    /\ is_valid_image_content_type(u_file.content_type, u_file.filename)
    /\ u_response' = [status |-> 500, detail |-> "storage"]
    /\ u_pc' = "done"
    /\ UNCHANGED << UploadRest, u_file, stored_objects, media_assets >>

\* lines 79-82 and 94-100: the data cannot be read as an image -> 400
UploadCorrupt ==
    /\ u_pc = "stored"
    /\ u_file.image = Nothing
    /\ u_response' = [status |-> 400,
                      detail |-> "Invalid image file: file is not a valid image or is corrupted"]
    /\ u_pc' = "done"
    /\ UNCHANGED << UploadRest, u_file, stored_objects, media_assets >>

\* lines 84-93: the image has a dimension that is not positive -> 400
UploadBadDimensions ==
    /\ u_pc = "stored"
    /\ u_file.image # Nothing
    /\ InvalidDimensions(The(u_file.image))
    /\ u_response' = [status |-> 400,
                      detail |-> "Invalid image file: image has invalid dimensions"]
    /\ u_pc' = "done"
    /\ UNCHANGED << UploadRest, u_file, stored_objects, media_assets >>

\* lines 102-131: the MediaAsset is inserted and returned
UploadInsert ==
    /\ u_pc = "stored"
    /\ u_file.image # Nothing
    /\ ~InvalidDimensions(The(u_file.image))
    /\ media_assets' = Append(media_assets,
           [filename |-> u_file.filename,
            content_type |-> u_file.content_type,
            file_size |-> u_file.size,
            r2_object_key |-> Len(stored_objects),
            width |-> The(u_file.image).width,
            height |-> The(u_file.image).height,
            processing_status |-> "uploaded"])
    /\ u_response' = [status |-> 200,
                      filename |-> u_file.filename,
                      content_type |-> u_file.content_type,
                      file_size |-> u_file.size,
                      processing_status |-> "uploaded"]
    /\ u_pc' = "done"
    /\ UNCHANGED << UploadRest, u_file, stored_objects >>

\* lines 115 and 135-137: the insert raises -> 500
UploadInsertFail ==
    /\ u_pc = "stored"
    /\ u_file.image # Nothing
    /\ ~InvalidDimensions(The(u_file.image))
    /\ u_response' = [status |-> 500, detail |-> "database"]
    /\ u_pc' = "done"
    /\ UNCHANGED << UploadRest, u_file, stored_objects, media_assets >>

UploadNext ==
    \/ UploadTooLarge
    \/ UploadNotImage
    \/ UploadStore
    \/ UploadStoreFail
    \/ UploadCorrupt
    \/ UploadBadDimensions
    \/ UploadInsert
    \/ UploadInsertFail

SpecUpload == UploadInit /\ [][UploadNext]_vars


(***************************************************************************)
(* Claims on Part 10.                                                      *)
(***************************************************************************)
\* upload_media has decided on the size and the type of the file
UploadDecided == u_pc \in { "stored", "done" }

\* the upload was refused as not being an image
RefusedAsNotImage ==
    /\ u_pc = "done"
    /\ u_response.status = 400
    /\ u_response.detail = "Only image files are supported"

\* the filename's extension, the text after its last dot, identifies an
\* image type
HasImageExtension ==
    /\ Extension(u_file.filename) # Nothing
    /\ LowerName(The(Extension(u_file.filename))) \in ImageExtensions

\* the file is an image by its content type or by its filename's extension
ImageByTypeOrExtension ==
    ImageContentType(u_file.content_type) \/ HasImageExtension

\* a file larger than the limit is refused with 413 whatever else it is,
\* and nothing is stored for it
TooLargeRefusedFirst ==
    (UploadDecided /\ u_file.size > MaxFileBytes) =>
        /\ u_pc = "done"
        /\ u_response.status = 413
        /\ stored_objects = << >>

\* a file within the limit passes the type validation exactly when it is an
\* image by its content type or its extension, and is refused with 400
\* otherwise
AcceptedExactlyWhenImage ==
    (UploadDecided /\ u_file.size <= MaxFileBytes) =>
        (RefusedAsNotImage <=> ~ImageByTypeOrExtension)

\* C23: upload_media accepts a file as an image exactly when its content
\* type starts with image/ or its filename has an extension that identifies
\* an image type; a file with neither is refused with 400; a file larger
\* than MAX_FILE_SIZE_MB is refused with 413 before any other check.
C23_ImageValidation == TooLargeRefusedFirst /\ AcceptedExactlyWhenImage

\* the filename is a name with one extension or none: no second dot and no
\* leading dot
PlainName ==
    Len(u_file.filename) <= 2 /\ u_file.filename[1] # ""

\* the part of C23 that the code has: the size is checked first, and for
\* plain names the validation accepts exactly the images by type or
\* extension
C23_PlainNames ==
    /\ TooLargeRefusedFirst
    /\ PlainName => AcceptedExactlyWhenImage

\* the upload was answered with one of the errors of a rejected file
UploadRejected == u_pc = "done" /\ u_response.status \in { 400, 413 }

\* C27: whenever upload_media answers with an error (file too large, not an
\* image, unreadable image, invalid dimensions), no object has been written
\* to the storage and no MediaAsset has been inserted.
C27_RejectedLeavesNoTrace ==
    UploadRejected => (stored_objects = << >> /\ media_assets = << >>)

\* the part of C27 that the code has: a rejected upload inserts no
\* MediaAsset, and one rejected for its size or its type stores no object
C27_NoAssetAndEarlyRejectsClean ==
    UploadRejected =>
        /\ media_assets = << >>
        /\ (u_response.status = 413 \/ RefusedAsNotImage) => stored_objects = << >>


(***************************************************************************)
(* Part 11: app/routers/feature_extraction.py :: extract_features.         *)
(*                                                                         *)
(* Up to MaxCalls calls for one asset id run on the event loop; a call     *)
(* gives way to the others at each await, so each action is the code of    *)
(* one call between two awaits.  Every operation on the database may       *)
(* raise.  asset.save() writes the call's copy of the document.            *)
(***************************************************************************)
\* the most concurrent calls of extract_features for the asset
MaxCalls == 2

ExtractCalls == 1..MaxCalls

\* the features the embedding provider computes for the asset's image
ProviderFeatures == << 1, 0 >>

\* database.py lines 47-54: the fields of a MediaAsset that the handler
\* reads and writes
AssetDocument(status, extracted, features, message) ==
    [processing_status |-> status, features_extracted |-> extracted,
     features |-> features, error_message |-> message]

\* the documents the handler can find when the first call arrives: none, an
\* asset just uploaded, one whose extraction failed, one with its features
StoredAssets ==
    { Nothing,
      Just(AssetDocument("uploaded", FALSE, Nothing, "None")),
      Just(AssetDocument("error", FALSE, Nothing, "failed")),
      Just(AssetDocument("completed", TRUE, Just(ProviderFeatures), "None")) }

\* line 74: asset.features_extracted and asset.features is not None
AlreadyExtracted(asset) ==
    asset.features_extracted /\ asset.features # Nothing

\* a response without a body of features
ErrorResponse(status) == [status |-> status, cached |-> FALSE, features |-> Nothing]

\* the components other than extract_features
ExtractRest == << gvars, svars, rvars, mvars, avars, cvars, bvars, kvars, evars, uvars, lvars >>
ExtractOthersIdle == GroupIdle /\ SegIdle /\ RankIdle /\ MatchIdle /\ AnomalyIdle /\ ClusterIdle /\ BatchIdle /\ ConfigIdle /\ EnforceIdle /\ UploadIdle /\ LocatorIdle

ExtractInit ==
    /\ db_asset \in StoredAssets
    /\ x_pc = [p \in ExtractCalls |-> "idle"]
    /\ x_asset = [p \in ExtractCalls |-> Nothing]
    /\ x_provider_called = [p \in ExtractCalls |-> FALSE]
    /\ x_response = [p \in ExtractCalls |-> ErrorResponse(0)]
    /\ ExtractOthersIdle

\* lines 65, 54 and 119-120: no embedding service -> 503
ExtractNoService(p) ==
    /\ x_pc[p] = "idle"
    /\ x_response' = [x_response EXCEPT ![p] = ErrorResponse(503)]
    /\ x_pc' = [x_pc EXCEPT ![p] = "done"]
    /\ UNCHANGED << ExtractRest, db_asset, x_asset, x_provider_called >>

\* line 65: the embedding service is there
ExtractStart(p) ==
    /\ x_pc[p] = "idle"
    /\ x_pc' = [x_pc EXCEPT ![p] = "get"]
    /\ UNCHANGED << ExtractRest, db_asset, x_asset, x_provider_called, x_response >>

\* lines 68 and 121: MediaAsset.get raises
ExtractGetFail(p) ==
    /\ x_pc[p] = "get"
    /\ x_pc' = [x_pc EXCEPT ![p] = "failed"]
    /\ UNCHANGED << ExtractRest, db_asset, x_asset, x_provider_called, x_response >>

\* lines 68-71: there is no such asset -> 404
ExtractNotFound(p) ==
    /\ x_pc[p] = "get"
    /\ db_asset = Nothing
    /\ x_response' = [x_response EXCEPT ![p] = ErrorResponse(404)]
    /\ x_pc' = [x_pc EXCEPT ![p] = "done"]
    /\ UNCHANGED << ExtractRest, db_asset, x_asset, x_provider_called >>

\* lines 68-82: the asset has its features, they are returned
ExtractCached(p) ==
    /\ x_pc[p] = "get"
    /\ db_asset # Nothing
    /\ AlreadyExtracted(The(db_asset))
    /\ x_asset' = [x_asset EXCEPT ![p] = db_asset]
    /\ x_response' = [x_response EXCEPT ![p] =
           [status |-> 200, cached |-> TRUE, features |-> The(db_asset).features]]
    /\ x_pc' = [x_pc EXCEPT ![p] = "done"]
    /\ UNCHANGED << ExtractRest, db_asset, x_provider_called >>

\* lines 68-85: the asset is read and its copy marked as processing
ExtractLoad(p) ==
    /\ x_pc[p] = "get"
    /\ db_asset # Nothing
    /\ ~AlreadyExtracted(The(db_asset))
    /\ x_asset' = [x_asset EXCEPT ![p] =
           Just([The(db_asset) EXCEPT !.processing_status = "processing"])]
    /\ x_pc' = [x_pc EXCEPT ![p] = "mark"]
    /\ UNCHANGED << ExtractRest, db_asset, x_provider_called, x_response >>

\* line 86: asset.save()
ExtractMark(p) ==
    /\ x_pc[p] = "mark"
    /\ db_asset' = x_asset[p]
    /\ x_pc' = [x_pc EXCEPT ![p] = "work"]
    /\ UNCHANGED << ExtractRest, x_asset, x_provider_called, x_response >>

\* lines 86 and 121: asset.save() raises
ExtractMarkFail(p) ==
    /\ x_pc[p] = "mark"
    /\ x_pc' = [x_pc EXCEPT ![p] = "failed"]
    /\ UNCHANGED << ExtractRest, db_asset, x_asset, x_provider_called, x_response >>

\* lines 89-96 and 121: the download, Image.open or the provider raises
ExtractWorkFail(p) ==
    /\ x_pc[p] = "work"
    /\ x_pc' = [x_pc EXCEPT ![p] = "failed"]
    /\ UNCHANGED << ExtractRest, db_asset, x_asset, x_provider_called, x_response >>

\* lines 89-105: the image is downloaded, the provider run, and the copy
\* given its features
ExtractWork(p) ==
    /\ x_pc[p] = "work"
    /\ x_provider_called' = [x_provider_called EXCEPT ![p] = TRUE]
    /\ x_asset' = [x_asset EXCEPT ![p] =
           Just([The(x_asset[p]) EXCEPT !.features = Just(ProviderFeatures),
                                         !.features_extracted = TRUE,
                                         !.processing_status = "completed"])]
    /\ x_pc' = [x_pc EXCEPT ![p] = "store"]
    /\ UNCHANGED << ExtractRest, db_asset, x_response >>

\* lines 106-117: asset.save() and the response
ExtractStore(p) ==
    /\ x_pc[p] = "store"
    /\ db_asset' = x_asset[p]
    /\ x_response' = [x_response EXCEPT ![p] =
           [status |-> 200, cached |-> FALSE, features |-> Just(ProviderFeatures)]]
    /\ x_pc' = [x_pc EXCEPT ![p] = "done"]
    /\ UNCHANGED << ExtractRest, x_asset, x_provider_called >>

\* lines 106 and 121: asset.save() raises
ExtractStoreFail(p) ==
    /\ x_pc[p] = "store"
    /\ x_pc' = [x_pc EXCEPT ![p] = "failed"]
    /\ UNCHANGED << ExtractRest, db_asset, x_asset, x_provider_called, x_response >>

\* lines 124-127: the asset is read again and its copy marked as error
ExtractErrorLoad(p) ==
    /\ x_pc[p] = "failed"
    /\ db_asset # Nothing
    /\ x_asset' = [x_asset EXCEPT ![p] =
           Just([The(db_asset) EXCEPT !.processing_status = "error",
                                      !.error_message = "failed"])]
    /\ x_pc' = [x_pc EXCEPT ![p] = "mark_error"]
    /\ UNCHANGED << ExtractRest, db_asset, x_provider_called, x_response >>

\* lines 124-125 and 129-133: there is no asset, or MediaAsset.get raises,
\* which is passed over -> 500
ExtractErrorSkip(p) ==
    /\ x_pc[p] = "failed"
    /\ x_response' = [x_response EXCEPT ![p] = ErrorResponse(500)]
    /\ x_pc' = [x_pc EXCEPT ![p] = "done"]
    /\ UNCHANGED << ExtractRest, db_asset, x_asset, x_provider_called >>

\* lines 128-133: asset.save() of the error status -> 500
ExtractErrorMark(p) ==
    /\ x_pc[p] = "mark_error"
    /\ db_asset' = x_asset[p]
    /\ x_response' = [x_response EXCEPT ![p] = ErrorResponse(500)]
    /\ x_pc' = [x_pc EXCEPT ![p] = "done"]
    /\ UNCHANGED << ExtractRest, x_asset, x_provider_called >>

\* lines 128-133: asset.save() raises, which is passed over -> 500
ExtractErrorMarkFail(p) ==
    /\ x_pc[p] = "mark_error"
    /\ x_response' = [x_response EXCEPT ![p] = ErrorResponse(500)]
    /\ x_pc' = [x_pc EXCEPT ![p] = "done"]
    /\ UNCHANGED << ExtractRest, db_asset, x_asset, x_provider_called >>

ExtractNext ==
    \E p \in ExtractCalls :
        \/ ExtractNoService(p)
        \/ ExtractStart(p)
        \/ ExtractGetFail(p)
        \/ ExtractNotFound(p)
        \/ ExtractCached(p)
        \/ ExtractLoad(p)
        \/ ExtractMark(p)
        \/ ExtractMarkFail(p)
        \/ ExtractWorkFail(p)
        \/ ExtractWork(p)
        \/ ExtractStore(p)
        \/ ExtractStoreFail(p)
        \/ ExtractErrorLoad(p)
        \/ ExtractErrorSkip(p)
        \/ ExtractErrorMark(p)
        \/ ExtractErrorMarkFail(p)

SpecExtract == ExtractInit /\ [][ExtractNext]_vars


(***************************************************************************)
(* Claims on Part 11.                                                      *)
(***************************************************************************)
\* processing_status of a document, "none" when there is no document
StatusOf(asset) ==
    IF asset = Nothing THEN "none" ELSE The(asset).processing_status

\* the step leaves the asset's status alone or moves it along
\* uploaded/error -> processing -> completed or error
LifecycleStep ==
    StatusOf(db_asset') # StatusOf(db_asset) =>
        \/ /\ StatusOf(db_asset) \in { "uploaded", "error" }
           /\ StatusOf(db_asset') = "processing"
        \/ /\ StatusOf(db_asset) = "processing"
           /\ StatusOf(db_asset') \in { "completed", "error" }

\* some call has finished and none is under way
CallsFinished ==
    /\ \A p \in ExtractCalls : x_pc[p] \in { "idle", "done" }
    /\ \E p \in ExtractCalls : x_pc[p] = "done"

\* once the calls have finished the asset is not in status processing
NotLeftProcessing == CallsFinished => StatusOf(db_asset) # "processing"

\* features_extracted implies that there are features and that the status
\* is completed
ExtractedIsCompleted ==
    (db_asset # Nothing /\ The(db_asset).features_extracted) =>
        /\ The(db_asset).features # Nothing
        /\ The(db_asset).processing_status = "completed"

\* a call that returns the features the asset already has did not run the
\* provider, and its step leaves the asset as it is
CachedLeavesAsset ==
    \A p \in ExtractCalls :
        (x_pc[p] # "done" /\ x_pc'[p] = "done" /\ x_response'[p].cached) =>
            /\ ~x_provider_called'[p]
            /\ db_asset' = db_asset

\* C26: the asset's processing_status moves only uploaded/error ->
\* processing -> completed or error; after a call has finished the asset is
\* not left in processing; features_extracted implies features and status
\* completed; a call on an asset that has its features returns them without
\* running the provider and without modifying the asset.
C26_StatusLifecycle ==
    [][/\ LifecycleStep
       /\ NotLeftProcessing'
       /\ ExtractedIsCompleted'
       /\ CachedLeavesAsset]_vars

\* the part of C26 that the code has: an asset with features_extracted has
\* features, and a call answered from the stored features neither runs the
\* provider nor writes the asset
C26_CachedAndFeatures ==
    [][/\ (db_asset' # Nothing /\ The(db_asset').features_extracted)
              => The(db_asset').features # Nothing
       /\ CachedLeavesAsset]_vars

\* the first part of C26 alone
C26_LifecycleOnly == [][LifecycleStep]_vars

\* the second part of C26 alone
C26_NotLeftProcessingOnly == NotLeftProcessing

\* the third part of C26 alone
C26_ExtractedIsCompletedOnly == ExtractedIsCompleted


(***************************************************************************)
(* Part 12: get_dinov3_service of app/routers/video_analysis.py (the same  *)
(*          code is in app/routers/feature_extraction.py).                 *)
(*                                                                         *)
(* Up to MaxCallers requests call get_dinov3_service on the event loop.    *)
(* The only await of the function is service.initialize(), which gives way *)
(* to the other callers at its await of the Redis ping                     *)
(* (app/core/dinov3_service.py line 79).  An instance is a number: 0 is    *)
(* the one app.main holds, k >= 1 the k-th one constructed here; None is   *)
(* NoNumber.                                                               *)
(***************************************************************************)
\* the most callers of get_dinov3_service
MaxCallers == 3

Callers == 1..MaxCallers

\* the components other than get_dinov3_service
LocatorRest == << gvars, svars, rvars, mvars, avars, cvars, bvars, kvars, evars, uvars, xvars >>
LocatorOthersIdle == GroupIdle /\ SegIdle /\ RankIdle /\ MatchIdle /\ AnomalyIdle /\ ClusterIdle /\ BatchIdle /\ ConfigIdle /\ EnforceIdle /\ UploadIdle /\ ExtractIdle

\* video_analysis.py line 19: no instance is set; app.main holds its
\* service, or has none, or is not loaded under that name
LocatorInit ==
    /\ service_instance = NoNumber
    /\ main_service \in { NoNumber, Num(0) }
    /\ constructed = 0
    /\ l_pc = [p \in Callers |-> "idle"]
    /\ l_service = [p \in Callers |-> NoNumber]
    /\ l_result = [p \in Callers |-> NoNumber]
    /\ LocatorOthersIdle

\* lines 31-32: the instance that is set is returned
LocatorSet(p) ==
    /\ l_pc[p] = "idle"
    /\ service_instance # NoNumber
    /\ l_result' = [l_result EXCEPT ![p] = service_instance]
    /\ l_pc' = [l_pc EXCEPT ![p] = "done"]
    /\ UNCHANGED << LocatorRest, service_instance, main_service, constructed,
                    l_service >>

\* lines 35-42: the service of app.main is kept and returned
LocatorFromMain(p) ==
    /\ l_pc[p] = "idle"
    /\ service_instance = NoNumber
    /\ main_service # NoNumber
    /\ service_instance' = main_service
    /\ l_result' = [l_result EXCEPT ![p] = main_service]
    /\ l_pc' = [l_pc EXCEPT ![p] = "done"]
    /\ UNCHANGED << LocatorRest, main_service, constructed, l_service >>

\* lines 47-50: a new service is constructed and its initialize() awaited
LocatorConstruct(p) ==
    /\ l_pc[p] = "idle"
    /\ service_instance = NoNumber
    /\ main_service = NoNumber
    /\ constructed' = constructed + 1
    /\ l_service' = [l_service EXCEPT ![p] = Num(constructed + 1)]
    /\ l_pc' = [l_pc EXCEPT ![p] = "initializing"]
    /\ UNCHANGED << LocatorRest, service_instance, main_service, l_result >>

\* lines 47-56: a new service is constructed, loading its model raises
\* (app/core/dinov3_service.py lines 72-74) -> 503
LocatorConstructFail(p) ==
    /\ l_pc[p] = "idle"
    /\ service_instance = NoNumber
    /\ main_service = NoNumber
    /\ constructed' = constructed + 1
    /\ l_pc' = [l_pc EXCEPT ![p] = "http503"]
    /\ UNCHANGED << LocatorRest, service_instance, main_service, l_service,
                    l_result >>

\* lines 51-52: initialize() has returned, the service is set and returned
LocatorInitialized(p) ==
    /\ l_pc[p] = "initializing"
    /\ service_instance' = l_service[p]
    /\ l_result' = [l_result EXCEPT ![p] = l_service[p]]
    /\ l_pc' = [l_pc EXCEPT ![p] = "done"]
    /\ UNCHANGED << LocatorRest, main_service, constructed, l_service >>

LocatorNext ==
    \E p \in Callers :
        \/ LocatorSet(p)
        \/ LocatorFromMain(p)
        \/ LocatorConstruct(p)
        \/ LocatorConstructFail(p)
        \/ LocatorInitialized(p)

SpecLocator == LocatorInit /\ [][LocatorNext]_vars

(***************************************************************************)
(* Claims on Part 12.                                                      *)
(***************************************************************************)
\* the callers that have been given an instance
Served == { p \in Callers : l_pc[p] = "done" }

\* the instances that were constructed here and whose initialize() has
\* returned
InitializedInstances ==
    { l_service[p] : p \in { q \in Served : l_service[q] # NoNumber } }

\* C24: when several requests call get_dinov3_service while no instance is
\* set, at most one DINOv3Service is constructed and initialized, and all
\* callers, then and later, receive the same instance.
C24_OneSharedInstance ==
    /\ Cardinality(InitializedInstances) <= 1
    /\ \A p \in Served : \A q \in Served : l_result[p] = l_result[q]

\* the part of C24 that the code has: while app.main holds a service, none
\* is constructed and every caller receives that one
C24_MainServiceShared ==
    main_service # NoNumber =>
        /\ constructed = 0
        /\ \A p \in Served : l_result[p] = main_service
====
